---- MODULE Spec2Model ----
(***************************************************************************)
(* Global value numbering over MIR (rustc_mir_transform/src/gvn.rs).       *)
(*                                                                         *)
(* The model follows the pass: VnState (the value interner with its        *)
(* parallel table of evaluated constants), the place/rvalue simplifier,    *)
(* the replacement visitor, the StorageRemover, and propagate_ssa which    *)
(* drives them.  VnIndex is 0-based as in the source: index i names        *)
(* values[i + 1] of the TLA+ sequence.  Option<T> is a sequence of length  *)
(* at most one.                                                            *)
(***************************************************************************)
EXTENDS Integers, Sequences, FiniteSets, TLC

None == <<>>
Some(x) == <<x>>
IsSome(o) == o # <<>>
Unwrap(o) == o[1]

Min(a, b) == IF a < b THEN a ELSE b

-----------------------------------------------------------------------------
(* Types and the layout service.                                           *)

Types ==
    {"u8", "usize", "bool", "()", "Cell<u8>", "&u8", "&Cell<u8>", "&mut u8",
     "*const u8", "Box<u8>", "(u8,u8)", "(u8,bool)", "(u8,u8,u8)", "[u8;2]",
     "[u8;5]", "Option<u8>", "&[u8]", "[u8]", "fn()", "&'static u8", "(u8,fn())",
     "Result<u8,u8>"}

\* Ty::ref_mutability: Some(mutability) for a reference, None otherwise
\* (raw pointers and Box are not references).
ref_mutability(ty) ==
    IF ty \in {"&u8", "&Cell<u8>", "&[u8]", "&'static u8"} THEN Some("Not")
    ELSE IF ty = "&mut u8" THEN Some("Mut")
    ELSE None

\* Ty::builtin_deref(true): the pointee of a reference, raw pointer or Box.
builtin_deref(ty) ==
    IF ty \in {"&u8", "&mut u8", "*const u8", "Box<u8>", "&'static u8"} THEN Some("u8")
    ELSE IF ty = "&Cell<u8>" THEN Some("Cell<u8>")
    ELSE IF ty = "&[u8]" THEN Some("[u8]")
    ELSE None

is_freeze(ty) == ty # "Cell<u8>"

is_sized(ty) == ty # "[u8]"

is_enum(ty) == ty \in {"Option<u8>", "Result<u8,u8>"}

\* The ABI class of a layout.
AbiOf(ty) ==
    IF ty = "()" THEN "ZST"
    ELSE IF ty \in {"(u8,u8)", "(u8,bool)", "Option<u8>", "&[u8]", "(u8,fn())",
                     "Result<u8,u8>"} THEN "ScalarPair"
    ELSE IF ty \in {"(u8,u8,u8)", "[u8;2]", "[u8;5]", "[u8]"} THEN "Aggregate"
    ELSE "Scalar"

\* Element type of an array or slice type.
ElemTy(ty) == IF ty \in {"[u8;2]", "[u8;5]", "[u8]"} THEN "u8" ELSE "()"

\* Ty::new_tup_from_iter
TupleTy(tys) ==
    IF tys = <<>> THEN "()"
    ELSE IF tys = <<"u8", "u8">> THEN "(u8,u8)"
    ELSE IF tys = <<"u8", "bool">> THEN "(u8,bool)"
    ELSE IF tys = <<"u8", "fn()">> THEN "(u8,fn())"
    ELSE IF tys = <<"u8", "u8", "u8">> THEN "(u8,u8,u8)"
    ELSE "(..)"

\* Ty::new_array
ArrayTy(elem, n) ==
    IF elem = "u8" /\ n = 2 THEN "[u8;2]"
    ELSE IF elem = "u8" /\ n = 5 THEN "[u8;5]"
    ELSE "[..]"

\* Number of values of an integer type: u8 wraps at 2^8; usize and isize
\* are kept at 16 bits.
Modulus(ty) == IF ty = "bool" THEN 2 ELSE IF ty = "u8" THEN 256 ELSE 65536

\* Layout::size in bytes.
SizeOfTy(ty) ==
    CASE ty \in {"u8", "bool", "Cell<u8>"} -> 1
      [] ty = "()" -> 0
      [] ty \in {"(u8,u8)", "(u8,bool)", "Option<u8>", "Result<u8,u8>", "[u8;2]", "usize",
                 "isize"} -> 2
      [] ty = "(u8,u8,u8)" -> 3
      [] ty = "[u8;5]" -> 5
      [] OTHER -> 8

\* The reference or raw pointer type to `ty` (Ty::new_ref, Ty::new_ptr).
PointerTy(kind, ty) ==
    CASE kind = "Ref:Mut" -> "&mut " \o ty
      [] kind = "Address:Not" -> "*const " \o ty
      [] kind = "Address:Mut" -> "*mut " \o ty
      [] OTHER -> "&" \o ty

-----------------------------------------------------------------------------
(* MIR constants.                                                          *)

NoConst == [k |-> "", v |-> <<>>, ty |-> ""]
ScalarC(n, ty) == [k |-> "Scalar", v |-> <<n>>, ty |-> ty]
ZeroSizedC(ty) == [k |-> "ZeroSized", v |-> <<>>, ty |-> ty]
IndirectC(v, ty) == [k |-> "Indirect", v |-> v, ty |-> ty]
\* A ConstValue::Indirect whose allocation holds a pointer.
IndirectProvC(v, ty) == [k |-> "IndirectProv", v |-> v, ty |-> ty]
\* A byte-string literal (ConstValue::Slice) and a function item reified to
\* a pointer: a new pointer each time they are evaluated.
SliceC == [k |-> "Slice", v |-> <<7, 8>>, ty |-> "&[u8]"]
FnPtrC == [k |-> "FnPtr", v |-> <<>>, ty |-> "fn()"]

\* Const::is_deterministic
is_deterministic(c) == c.k \notin {"Slice", "FnPtr"}

\* ConstValue::may_have_provenance: the constant is a pointer, a slice, or
\* an allocation that holds provenance.
may_have_provenance(c) == c.k \in {"IndirectProv", "Slice", "FnPtr", "Ref"}

-----------------------------------------------------------------------------
(* The interpreter's operands (OpTy): the type, the ABI of its layout, the *)
(* scalars it holds, whether it carries pointer provenance, and whether it *)
(* lives in an allocation (MPlace) or is an immediate.  A pointer's v is   *)
(* the content of the allocation it points to.                             *)

Op(ty, abi, v, prov, mem) == [ty |-> ty, abi |-> abi, v |-> v, prov |-> prov, mem |-> mem]
Imm(ty, v) == Op(ty, AbiOf(ty), v, FALSE, FALSE)

\* InterpCx::eval_mir_constant
eval_mir_constant(c) ==
    CASE c.k = "Scalar" -> Some(Imm(c.ty, c.v))
      [] c.k = "ZeroSized" -> Some(Op(c.ty, "ZST", <<>>, FALSE, FALSE))
      [] c.k = "Indirect" -> Some(Op(c.ty, AbiOf(c.ty), c.v, FALSE, TRUE))
      [] c.k = "IndirectProv" -> Some(Op(c.ty, AbiOf(c.ty), c.v, TRUE, TRUE))
      [] c.k = "Slice" -> Some(Op(c.ty, "ScalarPair", c.v, TRUE, FALSE))
      [] c.k = "FnPtr" -> Some(Op(c.ty, "Scalar", c.v, TRUE, FALSE))
      [] c.k = "Ref" -> Some(Op(c.ty, "Scalar", c.v, TRUE, FALSE))
      [] OTHER -> None

\* InterpCx::overflowing_binary_op on two integer immediates:
\* <<result, overflowed>>, or None when the operation fails.
overflowing_binary_op(op, l, r, ty) ==
    LET m == Modulus(ty) IN
    CASE op = "Add" -> Some(<<(l + r) % m, l + r >= m>>)
      [] op = "Sub" -> Some(<<(l - r) % m, l < r>>)
      [] op = "Div" -> IF r = 0 THEN None ELSE Some(<<l \div r, FALSE>>)
      [] OTHER -> None

\* InterpCx::overflowing_unary_op
overflowing_unary_op(op, x, ty) ==
    LET m == Modulus(ty) IN
    CASE op = "Neg" -> Some((m - x) % m)
      [] op = "Not" -> Some(m - 1 - x)
      [] OTHER -> None

-----------------------------------------------------------------------------
(* The IR: places, operands, rvalues, statements.                          *)

\* PlaceElem.  n: the field, the variant, the index local or the offset;
\* m: min_length (or `to` of a Subslice); e: from_end; t: the type a Field,
\* OpaqueCast or Subtype carries.
Elem(k, n, m, e, t) == [k |-> k, n |-> n, m |-> m, e |-> e, t |-> t]
Deref == Elem("Deref", 0, 0, FALSE, "")
Field(f, ty) == Elem("Field", f, 0, FALSE, ty)
Downcast(variant) == Elem("Downcast", variant, 0, FALSE, "")
Index(idx) == Elem("Index", idx, 0, FALSE, "")
ConstantIndex(offset, min_length, from_end) == Elem("ConstantIndex", offset, min_length, from_end, "")

Place(local, projection) == [local |-> local, projection |-> projection]
LocalPlace(local) == Place(local, <<>>)
NoPlace == Place(0, <<>>)

\* Place::is_indirect: some projection is a Deref.
is_indirect(place) == \E i \in DOMAIN place.projection : place.projection[i].k = "Deref"

\* Place::is_indirect_first_projection
is_indirect_first_projection(place) ==
    place.projection # <<>> /\ place.projection[1].k = "Deref"

\* Place::as_local
as_local(place) == IF place.projection = <<>> THEN Some(place.local) ELSE None

Operand(k, c, place) == [k |-> k, c |-> c, place |-> place]
ConstOp(c) == Operand("Constant", c, NoPlace)
Copy(place) == Operand("Copy", NoConst, place)
Move(place) == Operand("Move", NoConst, place)

\* Rvalue.  x: the operator, cast kind, borrow kind or aggregate kind;
\* ops: the operands; place: the place read or borrowed; n: the Repeat count
\* or the variant of an Adt aggregate; t: the type of a cast or nullary op.
Rvalue(k, x, ops, place, n, t) == [k |-> k, x |-> x, ops |-> ops, place |-> place, n |-> n, t |-> t]
Use(op) == Rvalue("Use", "", <<op>>, NoPlace, 0, "")
CopyForDeref(place) == Rvalue("CopyForDeref", "", <<>>, place, 0, "")
RepeatRv(op, count) == Rvalue("Repeat", "", <<op>>, NoPlace, count, "")
AggregateRv(kind, ty, variant, fields) == Rvalue("Aggregate", kind, fields, NoPlace, variant, ty)
Ref(bk, place) == Rvalue("Ref", bk, <<>>, place, 0, "")
AddressOf(mutbl, place) == Rvalue("AddressOf", mutbl, <<>>, place, 0, "")
BinaryOpRv(op, lhs, rhs) == Rvalue("BinaryOp", op, <<lhs, rhs>>, NoPlace, 0, "")
NoRvalue == Rvalue("", "", <<>>, NoPlace, 0, "")

\* Statement.  Assign(local, rvalue); StorageLive(local); StorageDead(local);
\* Nop; and PlaceMention(place), which stands for the statements that only
\* mention a place and reach the visitor's visit_place hook.
Statement(k, local, rv, place) == [k |-> k, local |-> local, rv |-> rv, place |-> place]
Assign(local, rv) == Statement("Assign", local, rv, NoPlace)
StorageLive(l) == Statement("StorageLive", l, NoRvalue, NoPlace)
StorageDead(l) == Statement("StorageDead", l, NoRvalue, NoPlace)
Nop == Statement("Nop", 0, NoRvalue, NoPlace)
PlaceMention(place) == Statement("PlaceMention", 0, NoRvalue, place)

\* Terminator: SwitchInt(discr) with its targets, Goto or Return.
Terminator(k, ops, targets) == [k |-> k, ops |-> ops, targets |-> targets]
SwitchInt(discr, targets) == Terminator("SwitchInt", <<discr>>, targets)
Return == Terminator("Return", <<>>, {})

BasicBlockData(statements, terminator) == [statements |-> statements, terminator |-> terminator]

\* Location: block (0-based) and statement_index (0-based; the terminator
\* is at index Len(statements)).
Location(block, statement_index) == [block |-> block, statement_index |-> statement_index]

-----------------------------------------------------------------------------
(* Symbolic values.                                                        *)

NoElem == Elem("", 0, 0, FALSE, "")
VBase ==
    [k |-> "", x |-> "", n |-> 0, a |-> -1, b |-> -1, fs |-> <<>>,
     place |-> NoPlace, elem |-> NoElem, t |-> "", u |-> "", c |-> NoConst]
Opaque(n) == [VBase EXCEPT !.k = "Opaque", !.n = n]
Constant(value, disambiguator) == [VBase EXCEPT !.k = "Constant", !.c = value, !.n = disambiguator]
Aggregate(ty, variant, fields) == [VBase EXCEPT !.k = "Aggregate", !.x = ty, !.n = variant, !.fs = fields]
Repeat(elem, count) == [VBase EXCEPT !.k = "Repeat", !.a = elem, !.n = count]
Address(place, kind, provenance) == [VBase EXCEPT !.k = "Address", !.place = place, !.x = kind, !.n = provenance]
Projection(base, elem) == [VBase EXCEPT !.k = "Projection", !.a = base, !.elem = elem]
Discriminant(base) == [VBase EXCEPT !.k = "Discriminant", !.a = base]
LenV(slice) == [VBase EXCEPT !.k = "Len", !.a = slice]
NullaryOp(op, ty) == [VBase EXCEPT !.k = "NullaryOp", !.x = op, !.t = ty]
UnaryOp(op, arg) == [VBase EXCEPT !.k = "UnaryOp", !.x = op, !.a = arg]
BinaryOp(op, lhs, rhs) == [VBase EXCEPT !.k = "BinaryOp", !.x = op, !.a = lhs, !.b = rhs]
CheckedBinaryOp(op, lhs, rhs) == [VBase EXCEPT !.k = "CheckedBinaryOp", !.x = op, !.a = lhs, !.b = rhs]
Cast(kind, value, from, to) == [VBase EXCEPT !.k = "Cast", !.x = kind, !.a = value, !.t = from, !.u = to]

-----------------------------------------------------------------------------
(* The interpreter's projections and reads.                                *)

\* InterpCx::read_immediate(op).ok(): the operand is a scalar or a pair.
read_immediate_ok(op) == op.abi \in {"Scalar", "ScalarPair"}

\* An integer scalar: one initialized scalar without provenance.
IsInt(op) == op.abi = "Scalar" /\ ~op.prov /\ Len(op.v) = 1

\* InterpCx::deref_pointer(op).ok()
deref_pointer(op) ==
    IF IsSome(builtin_deref(op.ty)) /\ op.prov
    THEN LET ty == Unwrap(builtin_deref(op.ty))
         IN Some(Op(ty, AbiOf(ty), op.v, FALSE, TRUE))
    ELSE None

\* InterpCx::project(op, elem).ok()
ecx_project(op, elem) ==
    CASE elem.k = "Deref" -> deref_pointer(op)
      [] elem.k = "Downcast" ->
            IF is_enum(op.ty) /\ elem.n \in {0, 1}
            THEN Some([op EXCEPT !.ty =
                        IF op.ty = "Option<u8>"
                        THEN (IF elem.n = 0 THEN "Option<u8>::None" ELSE "Option<u8>::Some")
                        ELSE (IF elem.n = 0 THEN "Result<u8,u8>::Ok" ELSE "Result<u8,u8>::Err")])
            ELSE None
      [] elem.k = "Field" ->
            IF /\ op.ty \in {"Option<u8>::Some", "Result<u8,u8>::Ok", "Result<u8,u8>::Err"}
               /\ elem.n = 0
               /\ Len(op.v) = 2
            THEN Some(Op(elem.t, AbiOf(elem.t), <<op.v[2]>>, FALSE, op.mem))
            ELSE IF op.ty \in {"(u8,u8)", "(u8,bool)"} /\ elem.n < Len(op.v) /\ ~op.prov
            THEN Some(Op(elem.t, AbiOf(elem.t), <<op.v[elem.n + 1]>>, FALSE, op.mem))
            ELSE None
      [] elem.k = "ConstantIndex" ->
            IF op.ty = "[u8]" /\ ~elem.e /\ elem.n < Len(op.v)
            THEN Some(Op("u8", "Scalar", <<op.v[elem.n + 1]>>, FALSE, TRUE))
            ELSE None
      [] OTHER -> None

\* OpTy::len(ecx).ok()
op_len(op) ==
    CASE op.ty = "[u8;2]" -> Some(2)
      [] op.ty = "[u8;5]" -> Some(5)
      [] op.ty = "[u8]" -> Some(Len(op.v))
      [] OTHER -> None

RECURSIVE project_all(_, _, _)
\* The loop `for proj in place.projection.iter().skip(1)` of the Address
\* arm of eval_to_const, from projection i on.
project_all(mplace, projection, i) ==
    IF i > Len(projection) THEN Some(mplace)
    ELSE IF projection[i].k = "Index" THEN None
    ELSE LET next == ecx_project(mplace, projection[i])
         IN IF IsSome(next) THEN project_all(Unwrap(next), projection, i + 1) ELSE None

-----------------------------------------------------------------------------
(* VnState.  A state s is the record of the fields the pass mutates:       *)
(* values, evaluated, locals, rev_locals, next_opaque, reused_locals.      *)

VnStateNew(Locals) ==
    [values |-> <<>>, evaluated |-> <<>>, locals |-> [l \in Locals |-> None],
     rev_locals |-> <<>>, next_opaque |-> Some(0), reused_locals |-> {}]

get(s, index) == s.values[index + 1]

\* FxIndexSet::get_index_of
get_index_of(values, value) ==
    IF \E i \in DOMAIN values : values[i] = value
    THEN Some((CHOOSE i \in DOMAIN values : values[i] = value) - 1)
    ELSE None

\* self.evaluated[f] for every field, collected into an Option<Vec<_>>.
FieldOps(s, fs) ==
    IF \A i \in DOMAIN fs : IsSome(s.evaluated[fs[i] + 1])
    THEN Some([i \in DOMAIN fs |-> Unwrap(s.evaluated[fs[i] + 1])])
    ELSE None

RECURSIVE Flatten(_)
Flatten(ops) == IF ops = <<>> THEN <<>> ELSE Head(ops).v \o Flatten(Tail(ops))

\* The Aggregate arm of eval_to_const.
eval_aggregate(s, v) ==
    LET fields == FieldOps(s, v.fs) IN
    IF ~IsSome(fields) THEN None
    ELSE
    LET ops == Unwrap(fields)
        ty == CASE v.x = "Array" -> ArrayTy(ops[1].ty, Len(ops))
                [] v.x = "Tuple" -> TupleTy([i \in DOMAIN ops |-> ops[i].ty])
                [] OTHER -> v.x
        abi == IF ty \in Types THEN AbiOf(ty) ELSE "Aggregate"
        prov == \E i \in DOMAIN ops : ops[i].prov
    IN  IF abi = "ZST" THEN Some(Op(ty, "ZST", <<>>, FALSE, FALSE))
        ELSE IF abi \in {"Scalar", "ScalarPair"}
        THEN IF is_enum(ty)
             THEN Some(Op(ty, abi, <<v.n>> \o Flatten(ops), prov, TRUE))
             ELSE Some(Op(ty, abi, Flatten(ops), prov, TRUE))
        ELSE None

\* The Address arm of eval_to_const.
eval_address(s, v) ==
    IF ~is_indirect_first_projection(v.place) THEN None
    ELSE IF ~IsSome(s.locals[v.place.local]) THEN None
    ELSE
    LET pointer == s.evaluated[Unwrap(s.locals[v.place.local]) + 1] IN
    IF ~IsSome(pointer) THEN None
    ELSE
    LET base == deref_pointer(Unwrap(pointer)) IN
    IF ~IsSome(base) THEN None
    ELSE
    LET mplace == project_all(Unwrap(base), v.place.projection, 2) IN
    IF ~IsSome(mplace) THEN None
    ELSE LET m == Unwrap(mplace)
             abi == IF is_sized(m.ty) THEN "Scalar" ELSE "ScalarPair"
         IN Some(Op(PointerTy(v.x, m.ty), abi, m.v, TRUE, FALSE))

\* The UnaryOp, BinaryOp and CheckedBinaryOp arms of eval_to_const.
eval_arith(s, v) ==
    LET lhs == s.evaluated[v.a + 1]
        rhs == IF v.k = "UnaryOp" THEN lhs ELSE s.evaluated[v.b + 1]
    IN
    IF ~IsSome(lhs) \/ ~IsSome(rhs) THEN None
    ELSE
    LET l == Unwrap(lhs)
        r == Unwrap(rhs)
    IN
    IF ~read_immediate_ok(l) \/ ~read_immediate_ok(r) THEN None
    ELSE IF ~IsInt(l) \/ ~IsInt(r) THEN None
    ELSE IF v.k = "UnaryOp"
    THEN LET res == overflowing_unary_op(v.x, l.v[1], l.ty)
         IN IF IsSome(res) THEN Some(Imm(l.ty, <<Unwrap(res)>>)) ELSE None
    ELSE LET res == overflowing_binary_op(v.x, l.v[1], r.v[1], l.ty)
         IN IF ~IsSome(res) THEN None
            ELSE IF v.k = "BinaryOp" THEN Some(Imm(l.ty, <<Unwrap(res)[1]>>))
            ELSE Some(Op(TupleTy(<<l.ty, "bool">>), "ScalarPair",
                         <<Unwrap(res)[1], IF Unwrap(res)[2] THEN 1 ELSE 0>>, FALSE, FALSE))

\* The Cast arm of eval_to_const.
eval_cast(s, v) ==
    LET value == s.evaluated[v.a + 1] IN
    IF ~IsSome(value) THEN None
    ELSE
    LET op == Unwrap(value) IN
    CASE v.x = "IntToInt" ->
            IF read_immediate_ok(op) /\ IsInt(op)
            THEN Some(Imm(v.u, <<op.v[1] % Modulus(v.u)>>))
            ELSE None
      [] v.x = "Transmute" ->
            IF ~op.mem /\ ~(op.abi = AbiOf(v.u) /\ op.abi \in {"Scalar", "ScalarPair"})
            THEN None
            ELSE Some([op EXCEPT !.ty = v.u, !.abi = AbiOf(v.u)])
      [] OTHER -> None

\* VnState::eval_to_const
eval_to_const(s, value) ==
    LET v == get(s, value) IN
    CASE v.k = "Opaque" -> None
      [] v.k = "Repeat" -> None
      [] v.k = "Constant" -> eval_mir_constant(v.c)
      [] v.k = "Aggregate" -> eval_aggregate(s, v)
      [] v.k = "Projection" ->
            IF ~IsSome(s.evaluated[v.a + 1]) THEN None
            ELSE IF v.elem.k = "Index" THEN None
            ELSE ecx_project(Unwrap(s.evaluated[v.a + 1]), v.elem)
      [] v.k = "Address" -> eval_address(s, v)
      [] v.k = "Discriminant" ->
            IF ~IsSome(s.evaluated[v.a + 1]) THEN None
            ELSE LET base == Unwrap(s.evaluated[v.a + 1])
                 IN IF is_enum(base.ty) /\ base.v # <<>>
                    THEN Some(Imm("isize", <<base.v[1]>>))
                    ELSE None
      [] v.k = "Len" ->
            IF ~IsSome(s.evaluated[v.a + 1]) THEN None
            ELSE LET len == op_len(Unwrap(s.evaluated[v.a + 1]))
                 IN IF IsSome(len) THEN Some(Imm("usize", <<Unwrap(len)>>)) ELSE None
      [] v.k = "NullaryOp" ->
            IF v.x \in {"SizeOf", "AlignOf"} /\ ~is_sized(v.t) THEN None
            ELSE IF v.x = "SizeOf" THEN Some(Imm("usize", <<SizeOfTy(v.t)>>))
            ELSE IF v.x = "AlignOf" THEN Some(Imm("usize", <<Min(SizeOfTy(v.t), 1)>>))
            ELSE Some(Imm("usize", <<0>>))
      [] v.k \in {"UnaryOp", "BinaryOp", "CheckedBinaryOp"} -> eval_arith(s, v)
      [] v.k = "Cast" -> eval_cast(s, v)
      [] OTHER -> None

\* A result of a VnState method: the state it leaves and what it returns.
\* A method's result is handed on as an operator argument, so that what
\* follows the call reads the state the call left.
Ret(s, r) == [s |-> s, r |-> r]

\* Some(index) for a result holding an index.
SomeRet(res) == Ret(res.s, Some(res.r))

\* VnState::insert when insert_full reports a new value: s1 already holds
\* it at `index`, and the evaluated constant is pushed at the same index.
insert_new(s1, index) ==
    Ret([s1 EXCEPT !.evaluated = Append(@, eval_to_const(s1, index))], index)

\* An interner that appends without looking for an equal value.
insert_always_append(s, value) ==
    insert_new([s EXCEPT !.values = Append(@, value)], Len(s.values))

\* VnState::insert
insert(s, value) ==
    LET found == get_index_of(s.values, value) IN
    IF IsSome(found) THEN Ret(s, Unwrap(found))
    ELSE insert_new([s EXCEPT !.values = Append(@, value)], Len(s.values))

\* The index of a result known to hold one (Option::expect).
UnwrapRet(res) == Ret(res.s, Unwrap(res.r))

\* An insert that returns the index after the one the value is interned at.
InsertSomeNext(s, value) == Ret(insert(s, value).s, Some(insert(s, value).r + 1))

\* Some(self.insert(value))
InsertSome(s, value) == SomeRet(insert(s, value))

\* A new_opaque that hands out an opaque whatever the counter.
new_opaque_unstoppable(s) == InsertSome(s, Opaque(Len(s.values)))

\* VnState::new_opaque
new_opaque(s) ==
    IF ~IsSome(s.next_opaque) THEN Ret(s, None)
    ELSE InsertSome([s EXCEPT !.next_opaque = Some(Unwrap(@) + 1)],
                    Opaque(Unwrap(s.next_opaque)))

\* A new_pointer that gives every address the provenance 0 and leaves the
\* counter alone.
new_pointer_shared(s, place, kind) ==
    IF ~IsSome(s.next_opaque) THEN Ret(s, None)
    ELSE InsertSome(s, Address(place, kind, 0))

\* VnState::new_pointer
new_pointer(s, place, kind) ==
    IF ~IsSome(s.next_opaque) THEN Ret(s, None)
    ELSE InsertSome([s EXCEPT !.next_opaque = Some(Unwrap(@) + 1)],
                    Address(place, kind, Unwrap(s.next_opaque)))

\* An insert_constant that never disambiguates.
insert_constant_zero(s, value) == InsertSome(s, Constant(value, 0))

\* An insert_constant that reads the counter without advancing it.
insert_constant_stale(s, value) ==
    IF is_deterministic(value) THEN InsertSome(s, Constant(value, 0))
    ELSE IF ~IsSome(s.next_opaque) THEN Ret(s, None)
    ELSE InsertSome(s, Constant(value, Unwrap(s.next_opaque)))

\* VnState::insert_constant
insert_constant(s, value) ==
    IF is_deterministic(value) THEN InsertSome(s, Constant(value, 0))
    ELSE IF ~IsSome(s.next_opaque) THEN Ret(s, None)
    ELSE InsertSome([s EXCEPT !.next_opaque = Some(Unwrap(@) + 1)],
                    Constant(value, Unwrap(s.next_opaque)))

\* VnState::insert_scalar
insert_scalar(s, scalar, ty) == UnwrapRet(insert_constant(s, ScalarC(scalar, ty)))

-----------------------------------------------------------------------------
(* The function body and what propagate_ssa computes from it once.         *)

VARIABLES
    body,           \* the basic blocks: body[b + 1] is the data of block b
    local_decls,    \* the declared type of every local
    arg_count,      \* locals 1 .. arg_count are the function's arguments
    ssa,            \* SsaLocals: per local, its unique definition if it is SSA
    dominators,     \* the cloned dominators: <<a, b>> when block a dominates b
    values, evaluated, locals, rev_locals, next_opaque, reused_locals,
    phase,          \* where propagate_ssa is: learn, replace, fixup, done
    cursor,         \* the next assignment (learn) or location (replace)
    run,            \* the number of the pass invocation on this body
    input,          \* the body handed to the current invocation
    output1,        \* the body the first invocation returned
    last            \* the last VnState method called directly, and its result

Locals == DOMAIN local_decls

\* tcx.features().unsized_locals: locals of unsized type may exist.
unsized_locals == TRUE

\* DefLocation
DefArgument == [arg |-> TRUE, loc |-> Location(0, 0)]
DefBody(loc) == [arg |-> FALSE, loc |-> loc]

\* Location::successor_within_block
successor_within_block(loc) == Location(loc.block, loc.statement_index + 1)

\* Location::dominates
location_dominates(a, b) ==
    IF a.block = b.block THEN a.statement_index <= b.statement_index
    ELSE <<a.block, b.block>> \in dominators

\* SsaLocals::assignment_dominates: the unique assignment of `local`
\* strictly dominates `location`.
assignment_dominates(local, location) ==
    IF ~IsSome(ssa[local]) THEN FALSE
    ELSE IF Unwrap(ssa[local]).arg THEN TRUE
    ELSE location_dominates(successor_within_block(Unwrap(ssa[local]).loc), location)

RECURSIVE PlaceTyFrom(_, _, _)
PlaceTyFrom(ty, projection, i) ==
    IF i > Len(projection) THEN ty
    ELSE LET e == projection[i]
             next == CASE e.k = "Deref" ->
                            IF IsSome(builtin_deref(ty)) THEN Unwrap(builtin_deref(ty)) ELSE "?"
                       [] e.k \in {"Field", "OpaqueCast", "Subtype"} -> e.t
                       [] e.k \in {"Index", "ConstantIndex"} -> ElemTy(ty)
                       [] OTHER -> ty
         IN PlaceTyFrom(next, projection, i + 1)

\* PlaceRef::ty(local_decls, tcx).ty
PlaceTy(place) == PlaceTyFrom(local_decls[place.local], place.projection, 1)

\* Operand::ty
OperandTy(op) == IF op.k = "Constant" THEN op.c.ty ELSE PlaceTy(op.place)

\* Rvalue::ty
RvalueTy(rv) ==
    CASE rv.k = "Use" -> OperandTy(rv.ops[1])
      [] rv.k = "CopyForDeref" -> PlaceTy(rv.place)
      [] rv.k = "Repeat" -> ArrayTy(OperandTy(rv.ops[1]), rv.n)
      [] rv.k \in {"NullaryOp", "Len"} -> "usize"
      [] rv.k = "Aggregate" ->
            IF rv.x = "Array" THEN ArrayTy(rv.t, Len(rv.ops))
            ELSE IF rv.x = "Tuple" THEN TupleTy([i \in DOMAIN rv.ops |-> OperandTy(rv.ops[i])])
            ELSE rv.t
      [] rv.k = "Ref" -> PointerTy("Ref:" \o rv.x, PlaceTy(rv.place))
      [] rv.k = "AddressOf" -> PointerTy("Address:" \o rv.x, PlaceTy(rv.place))
      [] rv.k = "BinaryOp" -> IF rv.x \in {"Eq", "Lt"} THEN "bool" ELSE OperandTy(rv.ops[1])
      [] rv.k = "CheckedBinaryOp" -> TupleTy(<<OperandTy(rv.ops[1]), "bool">>)
      [] rv.k = "UnaryOp" -> OperandTy(rv.ops[1])
      [] rv.k = "Discriminant" -> "isize"
      [] OTHER -> rv.t

\* An assign that records the local in front of the locals that hold the
\* value already.
assign_in_front(s, local, value) ==
    [s EXCEPT !.locals[local] = Some(value),
              !.rev_locals = [k \in DOMAIN s.rev_locals \cup {value} |->
                                 IF k \in DOMAIN s.rev_locals
                                 THEN (IF k = value THEN <<local>> \o s.rev_locals[k]
                                       ELSE s.rev_locals[k])
                                 ELSE <<local>>]]

\* VnState::assign
assign(s, local, value) ==
    LET s1 == [s EXCEPT !.locals[local] = Some(value)]
        sized == ~unsized_locals \/ is_sized(local_decls[local])
        old == s.rev_locals
    IN IF sized
       THEN [s1 EXCEPT !.rev_locals =
                [k \in DOMAIN old \cup {value} |->
                    IF k \in DOMAIN old
                    THEN (IF k = value THEN Append(old[k], local) ELSE old[k])
                    ELSE <<local>>]]
       ELSE s1

\* try_as_local without the dominance test: the first local recorded for
\* the value, wherever it is assigned.
try_as_local_any(s, index, loc) ==
    IF index \notin DOMAIN s.rev_locals THEN None
    ELSE Some(s.rev_locals[index][1])

\* VnState::try_as_local
try_as_local(s, index, loc) ==
    IF index \notin DOMAIN s.rev_locals THEN None
    ELSE LET other == s.rev_locals[index]
             hits == {i \in DOMAIN other : assignment_dominates(other[i], loc)}
         IN IF hits = {} THEN None
            ELSE Some(other[CHOOSE i \in hits : \A j \in hits : i <= j])

\* ConstValue::Indirect for the allocation that holds the operand: the
\* allocation holds the provenance the operand holds.
alloc_const(op) ==
    IF op.prov THEN IndirectProvC(op.v, op.ty) ELSE IndirectC(op.v, op.ty)

\* An op_to_prop_const that interns the allocation without looking for
\* provenance in it.
op_to_prop_const_leaky(op) ==
    IF ~is_sized(op.ty) THEN None
    ELSE IF op.abi = "ZST" THEN Some(ZeroSizedC(op.ty))
    ELSE IF op.abi \notin {"Scalar", "ScalarPair"} THEN None
    ELSE IF op.abi = "Scalar" /\ IsInt(op) THEN Some(ScalarC(op.v[1], op.ty))
    ELSE Some(alloc_const(op))

\* op_to_prop_const: the ConstValue for an evaluated operand, as the
\* constant Const::Val(value, op.layout.ty).  An operand in memory is
\* interned unless alloc_ref.has_provenance(); an immediate is copied to a
\* new allocation, returned when its provenance().ptrs() is empty.
op_to_prop_const(op) ==
    IF ~is_sized(op.ty) THEN None
    ELSE IF op.abi = "ZST" THEN Some(ZeroSizedC(op.ty))
    ELSE IF op.abi \notin {"Scalar", "ScalarPair"} THEN None
    ELSE IF op.abi = "Scalar" /\ IsInt(op) THEN Some(ScalarC(op.v[1], op.ty))
    ELSE IF op.mem
    THEN (IF op.prov THEN None ELSE Some(alloc_const(op)))
    ELSE IF ~op.prov THEN Some(alloc_const(op))
    ELSE None

\* The condition of `assert!(!value.may_have_provenance(..))` in
\* try_as_constant on value `index`, TRUE when the assertion is not reached.
try_as_constant_asserted(s, index) ==
    LET v == get(s, index)
        op == s.evaluated[index + 1]
    IN IF v.k = "Constant" /\ is_deterministic(v.c) THEN TRUE
       ELSE IF ~IsSome(op) THEN TRUE
       ELSE IF ~is_sized(Unwrap(op).ty) THEN TRUE
       ELSE IF ~IsSome(op_to_prop_const(Unwrap(op))) THEN TRUE
       ELSE ~may_have_provenance(Unwrap(op_to_prop_const(Unwrap(op))))

\* VnState::try_as_constant
try_as_constant(s, index) ==
    LET v == get(s, index) IN
    IF v.k = "Constant" /\ is_deterministic(v.c) THEN Some(v.c)
    ELSE LET op == s.evaluated[index + 1] IN
         IF ~IsSome(op) THEN None
         ELSE IF ~is_sized(Unwrap(op).ty) THEN None
         ELSE op_to_prop_const(Unwrap(op))

-----------------------------------------------------------------------------
(* The place and rvalue simplifier.  A method that rewrites its argument   *)
(* in place returns Res(s, x, r): the state, the rewritten IR and the      *)
(* returned Option<VnIndex>.                                               *)

Res(s, x, r) == [s |-> s, x |-> x, r |-> r]

\* A method's result, paired with the IR node its caller rewrote.
WithX(res, x) == Res(res.s, x, res.r)

\* `operands.len() - offset as usize` in the ConstantIndex arm of project
\* overflows usize: the element counts from the end of an Array aggregate
\* and its offset is larger than the number of operands. A build with
\* overflow checks panics there; a build without them wraps, which is what
\* project_match computes.
index_from_end_overflows(s, value, proj) ==
    /\ proj.k = "ConstantIndex"
    /\ get(s, value).k = "Aggregate"
    /\ get(s, value).x = "Array"
    /\ proj.e
    /\ proj.n > Len(get(s, value).fs)

\* A project that reads a field through a downcast whatever the variant the
\* aggregate was built with.
project_any_variant(s, place, value, proj) ==
    IF /\ proj.k = "Field"
       /\ get(s, value).k = "Projection"
       /\ get(s, value).elem.k = "Downcast"
       /\ get(s, get(s, value).a).k = "Aggregate"
    THEN Ret(s, Some(get(s, get(s, value).a).fs[proj.n + 1]))
    ELSE InsertSome(s, Projection(value, proj))

\* The match of VnState::project on the projection element: either the
\* method returns `r` at once, or `elem` is the element of the Projection
\* value it interns.
project_match(s, place, value, proj) ==
    LET v == get(s, value)
        return(r) == [ret |-> TRUE, r |-> r, elem |-> NoElem]
        intern(elem) == [ret |-> FALSE, r |-> None, elem |-> elem]
    IN
    CASE proj.k = "Deref" ->
            LET ty == PlaceTy(place) IN
            IF /\ ref_mutability(ty) = Some("Not")
               /\ IsSome(builtin_deref(ty))
               /\ is_freeze(Unwrap(builtin_deref(ty)))
            THEN intern(Deref)
            ELSE return(None)
      [] proj.k = "Field" ->
            IF v.k = "Aggregate" THEN return(Some(v.fs[proj.n + 1]))
            ELSE IF /\ v.k = "Projection"
                    /\ v.elem.k = "Downcast"
                    /\ get(s, v.a).k = "Aggregate"
                    /\ get(s, v.a).n = v.elem.n
            THEN return(Some(get(s, v.a).fs[proj.n + 1]))
            ELSE intern(proj)
      [] proj.k = "Index" ->
            IF v.k = "Repeat" THEN return(Some(v.a))
            ELSE IF ~IsSome(s.locals[proj.n]) THEN return(None)
            ELSE intern(Index(Unwrap(s.locals[proj.n])))
      [] proj.k = "ConstantIndex" ->
            IF v.k = "Repeat" THEN return(Some(v.a))
            ELSE IF v.k = "Aggregate" /\ v.x = "Array"
            THEN LET offset == IF proj.e
                               THEN (Len(v.fs) - proj.n) % Modulus("usize")
                               ELSE proj.n
                 IN IF offset < Len(v.fs)
                    THEN return(Some(v.fs[offset + 1]))
                    ELSE return(None)
            ELSE intern(proj)
      [] OTHER -> intern(proj)

\* A project that merges the reads through any pointer, whatever its
\* mutability and its pointee.
project_any_pointer(s, place, value, proj) ==
    IF proj.k = "Deref" /\ ~IsSome(builtin_deref(PlaceTy(place)))
    THEN Ret(s, None)
    ELSE InsertSome(s, Projection(value, proj))

\* VnState::project
project(s, place, value, proj) ==
    LET m == project_match(s, place, value, proj) IN
    IF m.ret THEN Ret(s, m.r) ELSE InsertSome(s, Projection(value, m.elem))

\* InterpCx::read_target_usize(op).ok()
read_target_usize(op) == IF op.ty = "usize" /\ IsInt(op) THEN Some(op.v[1]) ELSE None

\* One step of the loop of simplify_place_projection: the element that
\* replaces projection element `elem`.
simplify_index(s, elem, location) ==
    IF elem.k = "Index" /\ IsSome(s.locals[elem.n])
    THEN LET idx == Unwrap(s.locals[elem.n])
             offset == IF IsSome(s.evaluated[idx + 1])
                       THEN read_target_usize(Unwrap(s.evaluated[idx + 1]))
                       ELSE None
             new_idx == try_as_local(s, idx, location)
         IN IF IsSome(offset)
            THEN ConstantIndex(Unwrap(offset), Unwrap(offset) + 1, FALSE)
            ELSE IF IsSome(new_idx) THEN Index(Unwrap(new_idx))
            ELSE elem
    ELSE elem

\* The locals the loop of simplify_place_projection inserts into
\* reused_locals: the new_idx of every element it turns into Index(new_idx).
reused_indices(s, projection, location) ==
    {simplify_index(s, projection[j], location).n :
        j \in {i \in DOMAIN projection :
                /\ projection[i].k = "Index"
                /\ simplify_index(s, projection[i], location).k = "Index"
                /\ IsSome(s.locals[projection[i].n])}}

\* VnState::simplify_place_projection
simplify_place_projection(s, place, location) ==
    LET base == s.locals[place.local]
        new_local == IF is_indirect(place) /\ IsSome(base)
                     THEN try_as_local(s, Unwrap(base), location)
                     ELSE None
        reused == s.reused_locals
                    \cup reused_indices(s, place.projection, location)
                    \cup (IF IsSome(new_local) THEN {Unwrap(new_local)} ELSE {})
    IN Res([s EXCEPT !.reused_locals = reused],
           Place(IF IsSome(new_local) THEN Unwrap(new_local) ELSE place.local,
                 [i \in DOMAIN place.projection |->
                    simplify_index(s, place.projection[i], location)]),
           None)

RECURSIVE place_value_loop(_, _, _, _, _, _)
RECURSIVE place_value_step(_, _, _, _, _)

\* The loop of simplify_place_value from projection `index` (0-based) on.
place_value_loop(s, place, location, index, value, place_ref) ==
    IF index >= Len(place.projection)
    THEN [s |-> s, r |-> Some(value), place_ref |-> place_ref]
    ELSE LET local == try_as_local(s, value, location)
         IN place_value_step(
                project(s, Place(place.local, SubSeq(place.projection, 1, index)),
                        value, place.projection[index + 1]),
                place, location, index,
                IF IsSome(local)
                THEN Place(Unwrap(local),
                           SubSeq(place.projection, index + 1, Len(place.projection)))
                ELSE place_ref)

\* `value = self.project(base, value, proj)?` and the next iteration.
place_value_step(res, place, location, index, place_ref) ==
    IF ~IsSome(res.r)
    THEN [s |-> res.s, r |-> None, place_ref |-> place_ref]
    ELSE place_value_loop(res.s, place, location, index + 1, Unwrap(res.r), place_ref)

\* simplify_place_value after its loop.
place_value_end(lp, place, location) ==
    IF ~IsSome(lp.r) THEN Res(lp.s, place, None)
    ELSE
    LET new_local == try_as_local(lp.s, Unwrap(lp.r), location)
        place_ref == IF IsSome(new_local) THEN LocalPlace(Unwrap(new_local)) ELSE lp.place_ref
    IN IF \/ place_ref.local # place.local
          \/ Len(place_ref.projection) < Len(place.projection)
       THEN Res([lp.s EXCEPT !.reused_locals = @ \cup {place_ref.local}], place_ref, lp.r)
       ELSE Res(lp.s, place, lp.r)

\* simplify_place_value after simplify_place_projection.
place_value_start(p1, location) ==
    IF ~IsSome(p1.s.locals[p1.x.local]) THEN Res(p1.s, p1.x, None)
    ELSE place_value_end(
            place_value_loop(p1.s, p1.x, location, 0, Unwrap(p1.s.locals[p1.x.local]), p1.x),
            p1.x, location)

\* VnState::simplify_place_value
simplify_place_value(s, place, location) ==
    place_value_start(simplify_place_projection(s, place, location), location)

\* The Copy/Move arm of simplify_operand after simplify_place_value.
operand_value(pv, operand) ==
    LET moved == [operand EXCEPT !.place = pv.x] IN
    IF ~IsSome(pv.r) THEN Res(pv.s, moved, None)
    ELSE LET const == try_as_constant(pv.s, Unwrap(pv.r))
         IN IF IsSome(const)
            THEN Res(pv.s, ConstOp(Unwrap(const)), pv.r)
            ELSE Res(pv.s, moved, pv.r)

\* VnState::simplify_operand
simplify_operand(s, operand, location) ==
    IF operand.k = "Constant"
    THEN WithX(insert_constant(s, operand.c), operand)
    ELSE operand_value(simplify_place_value(s, operand.place, location), operand)

\* VnState::simplify_discriminant
simplify_discriminant(s, place) ==
    LET v == get(s, place) IN
    IF v.k = "Aggregate" /\ v.x \notin {"Array", "Tuple"} /\ is_enum(v.x)
    THEN SomeRet(insert_scalar(s, v.n, "isize"))
    ELSE Ret(s, None)

RECURSIVE aggregate_fields(_, _, _, _, _)
RECURSIVE aggregate_field(_, _, _, _, _)
RECURSIVE aggregate_collect(_, _, _, _, _)

\* An iterator that gives no opaque to the operand whose simplification
\* fails.
aggregate_field_strict(res, ops, location, i, fields) ==
    aggregate_collect(Ret(res.s, res.r), [ops EXCEPT ![i] = res.x], location, i, fields)

\* The iterator of simplify_aggregate: each operand is simplified, one that
\* fails gets a fresh opaque, and collecting into an Option stops at the
\* first operand that has no value at all.
aggregate_fields(s, ops, location, i, fields) ==
    IF i > Len(ops) THEN Res(s, ops, Some(fields))
    ELSE aggregate_field(simplify_operand(s, ops[i], location), ops, location, i, fields)

\* `self.simplify_operand(op, location).or_else(|| self.new_opaque())`
aggregate_field(res, ops, location, i, fields) ==
    aggregate_collect(IF IsSome(res.r) THEN Ret(res.s, res.r) ELSE new_opaque(res.s),
                      [ops EXCEPT ![i] = res.x], location, i, fields)

aggregate_collect(alt, ops, location, i, fields) ==
    IF ~IsSome(alt.r) THEN Res(alt.s, ops, None)
    ELSE aggregate_fields(alt.s, ops, location, i + 1, Append(fields, Unwrap(alt.r)))

\* An array aggregate of more than this many equal operands becomes a Repeat.
RepeatThreshold == 4

\* A simplify_aggregate that interns every array as an Aggregate and leaves
\* the rvalue an aggregate.
aggregate_value_plain(fs, rvalue, location) ==
    IF ~IsSome(fs.r) THEN Res(fs.s, [rvalue EXCEPT !.ops = fs.x], None)
    ELSE WithX(InsertSome(fs.s, Aggregate(IF rvalue.x \in {"Array", "Tuple"} THEN rvalue.x
                                          ELSE rvalue.t,
                                          IF rvalue.x = "Adt" THEN rvalue.n ELSE 0,
                                          Unwrap(fs.r))),
               [rvalue EXCEPT !.ops = fs.x])

\* simplify_aggregate once the fields are simplified: the array of equal
\* operands becomes a Repeat, and the value is interned.
aggregate_value(fs, rvalue, location) ==
    LET rv1 == [rvalue EXCEPT !.ops = fs.x]
        ty == IF rvalue.x \in {"Array", "Tuple"} THEN rvalue.x ELSE rvalue.t
        variant_index == IF rvalue.x = "Adt" THEN rvalue.n ELSE 0
    IN
    IF ~IsSome(fs.r) THEN Res(fs.s, rv1, None)
    ELSE
    LET fields == Unwrap(fs.r) IN
    IF /\ ty = "Array"
       /\ Len(fields) > RepeatThreshold
       /\ \A i \in DOMAIN fields : fields[i] = fields[1]
    THEN LET first == fields[1]
             len == Len(fields)
             const == try_as_constant(fs.s, first)
             local == try_as_local(fs.s, first, location)
         IN IF IsSome(const)
            THEN WithX(InsertSome(fs.s, Repeat(first, len)),
                       RepeatRv(ConstOp(Unwrap(const)), len))
            ELSE IF IsSome(local)
            THEN WithX(InsertSome([fs.s EXCEPT !.reused_locals = @ \cup {Unwrap(local)}],
                                  Repeat(first, len)),
                       RepeatRv(Copy(LocalPlace(Unwrap(local))), len))
            ELSE WithX(InsertSome(fs.s, Repeat(first, len)), rv1)
    ELSE WithX(InsertSome(fs.s, Aggregate(ty, variant_index, fields)), rv1)

\* VnState::simplify_aggregate
simplify_aggregate(s, rvalue, location) ==
    LET is_zst == CASE rvalue.x \in {"Array", "Tuple", "Closure"} -> TRUE
                    [] rvalue.x \in {"Adt", "Union"} -> ~is_enum(rvalue.t)
                    [] OTHER -> FALSE
    IN
    IF rvalue.ops = <<>> /\ is_zst
    THEN WithX(insert_constant(s, ZeroSizedC(RvalueTy(rvalue))), rvalue)
    ELSE IF rvalue.x = "Union" THEN Res(s, rvalue, None)
    ELSE aggregate_value(aggregate_fields(s, rvalue.ops, location, 1, <<>>), rvalue, location)

\* What an arm of the match of simplify_rvalue leaves: it returned `r`, or
\* it built the value that simplify_rvalue interns after the match.
Returned(s, x, r) == [s |-> s, x |-> x, r |-> r, intern |-> FALSE, value |-> VBase]
ToIntern(s, x, value) == [s |-> s, x |-> x, r |-> None, intern |-> TRUE, value |-> value]

\* The Discriminant arm after simplify_discriminant.
discriminant_arm(discr, place, rvalue) ==
    IF IsSome(discr.r) THEN Returned(discr.s, rvalue, discr.r)
    ELSE ToIntern(discr.s, rvalue, Discriminant(place))

\* The Len and Discriminant arms after simplify_place_value.
place_arm(pv, rvalue) ==
    LET rv1 == [rvalue EXCEPT !.place = pv.x] IN
    IF ~IsSome(pv.r) THEN Returned(pv.s, rv1, None)
    ELSE IF rvalue.k = "Len" THEN ToIntern(pv.s, rv1, LenV(Unwrap(pv.r)))
    ELSE discriminant_arm(simplify_discriminant(pv.s, Unwrap(pv.r)), Unwrap(pv.r), rv1)

\* `return self.new_opaque()` for the casts that make a function pointer.
opaque_arm(res, rvalue) == Returned(res.s, rvalue, res.r)

\* The Repeat, Cast and UnaryOp arms after simplify_operand.
unary_arm(arg, rvalue) ==
    LET rv1 == [rvalue EXCEPT !.ops = <<arg.x>>] IN
    IF ~IsSome(arg.r) THEN Returned(arg.s, rv1, None)
    ELSE IF rvalue.k = "Cast" /\ rvalue.x \in {"ReifyFnPointer", "ClosureFnPointer"}
    THEN opaque_arm(new_opaque(arg.s), rv1)
    ELSE ToIntern(arg.s, rv1,
                CASE rvalue.k = "Repeat" -> Repeat(Unwrap(arg.r), rvalue.n)
                  [] rvalue.k = "Cast" ->
                        Cast(rvalue.x, Unwrap(arg.r), OperandTy(rvalue.ops[1]), rvalue.t)
                  [] OTHER -> UnaryOp(rvalue.x, Unwrap(arg.r)))

\* The BinaryOp and CheckedBinaryOp arms after both operands.
binary_arm(lhs, rhs, rvalue) ==
    LET rv1 == [rvalue EXCEPT !.ops = <<lhs.x, rhs.x>>] IN
    IF ~IsSome(lhs.r) \/ ~IsSome(rhs.r) THEN Returned(rhs.s, rv1, None)
    ELSE ToIntern(rhs.s, rv1,
                IF rvalue.k = "BinaryOp"
                THEN BinaryOp(rvalue.x, Unwrap(lhs.r), Unwrap(rhs.r))
                ELSE CheckedBinaryOp(rvalue.x, Unwrap(lhs.r), Unwrap(rhs.r)))

\* The arms that take operands, after the first operand is simplified.
operand_arm(lhs, rvalue, location) ==
    IF rvalue.k \in {"BinaryOp", "CheckedBinaryOp"}
    THEN binary_arm(lhs, simplify_operand(lhs.s, rvalue.ops[2], location), rvalue)
    ELSE unary_arm(lhs, rvalue)

\* The Use and CopyForDeref arms after simplify_operand.
use_arm(res) == Returned(res.s, Use(res.x), res.r)

\* The Ref and AddressOf arms after simplify_place_projection.
address_arm(pp, rvalue) ==
    LET res == new_pointer(pp.s, pp.x,
                           (IF rvalue.k = "Ref" THEN "Ref:" ELSE "Address:") \o rvalue.x)
    IN Returned(res.s, [rvalue EXCEPT !.place = pp.x], res.r)

\* The Aggregate arm.
aggregate_arm(res) == Returned(res.s, res.x, res.r)

\* The match of simplify_rvalue.
rvalue_match(s, rvalue, location) ==
    CASE rvalue.k \in {"Use", "CopyForDeref"} ->
            use_arm(simplify_operand(
                s, IF rvalue.k = "Use" THEN rvalue.ops[1] ELSE Copy(rvalue.place), location))
      [] rvalue.k = "NullaryOp" -> ToIntern(s, rvalue, NullaryOp(rvalue.x, rvalue.t))
      [] rvalue.k = "Aggregate" -> aggregate_arm(simplify_aggregate(s, rvalue, location))
      [] rvalue.k \in {"Ref", "AddressOf"} ->
            address_arm(simplify_place_projection(s, rvalue.place, location), rvalue)
      [] rvalue.k \in {"Len", "Discriminant"} ->
            place_arm(simplify_place_value(s, rvalue.place, location), rvalue)
      [] rvalue.k \in {"Repeat", "Cast", "UnaryOp", "BinaryOp", "CheckedBinaryOp"} ->
            operand_arm(simplify_operand(s, rvalue.ops[1], location), rvalue, location)
      [] OTHER -> Returned(s, rvalue, None)

\* `Some(self.insert(value))` at the end of simplify_rvalue.
rvalue_intern(m) ==
    IF m.intern THEN WithX(InsertSome(m.s, m.value), m.x) ELSE Res(m.s, m.x, m.r)

\* VnState::simplify_rvalue
simplify_rvalue(s, rvalue, location) == rvalue_intern(rvalue_match(s, rvalue, location))

-----------------------------------------------------------------------------
(* The replacement visitor (impl MutVisitor for VnState).                  *)

\* A visit_statement that also assigns the value to the destination, as the
\* learning callback does.
visit_assign_learning(res, stmt, location) ==
    IF ~IsSome(res.r) THEN Res(res.s, [stmt EXCEPT !.rv = res.x], None)
    ELSE Res(assign(res.s, stmt.local, Unwrap(res.r)), [stmt EXCEPT !.rv = res.x], None)

\* A visit_statement that records the local found even when the rvalue is a
\* move of it.
visit_assign_recording(res, stmt, location) ==
    IF ~IsSome(res.r) THEN Res(res.s, [stmt EXCEPT !.rv = res.x], None)
    ELSE IF IsSome(try_as_constant(res.s, Unwrap(res.r)))
    THEN Res(res.s, [stmt EXCEPT !.rv = Use(ConstOp(Unwrap(try_as_constant(res.s,
                                                                Unwrap(res.r)))))], None)
    ELSE IF IsSome(try_as_local(res.s, Unwrap(res.r), location))
    THEN Res([res.s EXCEPT !.reused_locals =
                    @ \cup {Unwrap(try_as_local(res.s, Unwrap(res.r), location))}],
             [stmt EXCEPT !.rv = res.x], None)
    ELSE Res(res.s, [stmt EXCEPT !.rv = res.x], None)

\* visit_statement on an assignment, after simplify_rvalue.
visit_assign(res, stmt, location) ==
    IF ~IsSome(res.r) THEN Res(res.s, [stmt EXCEPT !.rv = res.x], None)
    ELSE LET value == Unwrap(res.r)
             const == try_as_constant(res.s, value)
             local == try_as_local(res.s, value, location)
         IN IF IsSome(const)
            THEN Res(res.s, [stmt EXCEPT !.rv = Use(ConstOp(Unwrap(const)))], None)
            ELSE IF IsSome(local) /\ res.x # Use(Move(LocalPlace(Unwrap(local))))
            THEN Res([res.s EXCEPT !.reused_locals = @ \cup {Unwrap(local)}],
                     [stmt EXCEPT !.rv = Use(Copy(LocalPlace(Unwrap(local))))], None)
            ELSE Res(res.s, [stmt EXCEPT !.rv = res.x], None)

\* super_statement on an assignment of a constant: visit_place on the
\* destination (a bare local: nothing to simplify), then visit_operand.
visit_constant(res, stmt) == Res(res.s, [stmt EXCEPT !.rv = Use(res.x)], None)

\* super_statement on a PlaceMention: visit_place.
visit_mention(res, stmt) == Res(res.s, [stmt EXCEPT !.place = res.x], None)

\* VnState::visit_statement
visit_statement(s, stmt, location) ==
    IF stmt.k = "Assign" /\ ~(stmt.rv.k = "Use" /\ stmt.rv.ops[1].k = "Constant")
    THEN visit_assign(simplify_rvalue(s, stmt.rv, location), stmt, location)
    ELSE IF stmt.k = "Assign"
    THEN visit_constant(simplify_operand(s, stmt.rv.ops[1], location), stmt)
    ELSE IF stmt.k = "PlaceMention"
    THEN visit_mention(simplify_place_projection(s, stmt.place, location), stmt)
    ELSE Res(s, stmt, None)

\* visit_operand on the discriminant of a SwitchInt.
visit_switch(res, term) == Res(res.s, [term EXCEPT !.ops = <<res.x>>], None)

\* A visitor that also folds a SwitchInt on a known constant into a jump
\* to a single target.
visit_terminator_fold(s, term, location) ==
    IF term.k = "SwitchInt"
    THEN LET res == simplify_operand(s, term.ops[1], location)
         IN IF res.x.k = "Constant"
            THEN Res(res.s, [k |-> "Goto", ops |-> <<>>,
                             targets |-> {CHOOSE x \in term.targets : TRUE}], None)
            ELSE Res(res.s, [term EXCEPT !.ops = <<res.x>>], None)
    ELSE Res(s, term, None)

\* super_terminator: visit_operand on the discriminant of a SwitchInt.
visit_terminator(s, term, location) ==
    IF term.k = "SwitchInt"
    THEN visit_switch(simplify_operand(s, term.ops[1], location), term)
    ELSE Res(s, term, None)

-----------------------------------------------------------------------------
(* StorageRemover.                                                         *)

\* A remover that turns into a copy every move out of a reused local, the
\* moves of its fields and elements included.
remover_visit_operand_any_place(reused, operand) ==
    IF operand.k = "Move" /\ operand.place.local \in reused
    THEN Copy(operand.place)
    ELSE operand

\* StorageRemover::visit_operand
remover_visit_operand(reused, operand) ==
    IF /\ operand.k = "Move"
       /\ IsSome(as_local(operand.place))
       /\ Unwrap(as_local(operand.place)) \in reused
    THEN Copy(operand.place)
    ELSE operand

\* A remover that erases only the StorageLive of a reused local.
remover_visit_statement_live_only(reused, stmt) ==
    IF stmt.k = "StorageLive" /\ stmt.local \in reused
    THEN Nop
    ELSE IF stmt.k = "Assign"
    THEN [stmt EXCEPT !.rv.ops = [i \in DOMAIN stmt.rv.ops |->
                                     remover_visit_operand(reused, stmt.rv.ops[i])]]
    ELSE stmt

\* A remover that erases every storage statement, reused local or not.
remover_visit_statement_all(reused, stmt) ==
    IF stmt.k \in {"StorageLive", "StorageDead"}
    THEN Nop
    ELSE IF stmt.k = "Assign"
    THEN [stmt EXCEPT !.rv.ops = [i \in DOMAIN stmt.rv.ops |->
                                     remover_visit_operand(reused, stmt.rv.ops[i])]]
    ELSE stmt

\* StorageRemover::visit_statement
remover_visit_statement(reused, stmt) ==
    IF stmt.k \in {"StorageLive", "StorageDead"} /\ stmt.local \in reused
    THEN Nop
    ELSE IF stmt.k = "Assign"
    THEN [stmt EXCEPT !.rv.ops = [i \in DOMAIN stmt.rv.ops |->
                                     remover_visit_operand(reused, stmt.rv.ops[i])]]
    ELSE stmt

\* A remover that deletes the storage statements of reused locals instead of
\* turning them into no-ops.
remover_visit_block_delete(reused, data) ==
    LET keep(stmt) == ~(stmt.k \in {"StorageLive", "StorageDead"} /\ stmt.local \in reused)
    IN BasicBlockData(
        [i \in DOMAIN SelectSeq(data.statements, keep) |->
            remover_visit_statement(reused, SelectSeq(data.statements, keep)[i])],
        [data.terminator EXCEPT !.ops = [i \in DOMAIN data.terminator.ops |->
                                            remover_visit_operand(reused, data.terminator.ops[i])]])

\* StorageRemover's walk over one block (visit_body_preserves_cfg).
remover_visit_block(reused, data) ==
    BasicBlockData(
        [i \in DOMAIN data.statements |-> remover_visit_statement(reused, data.statements[i])],
        [data.terminator EXCEPT !.ops = [i \in DOMAIN data.terminator.ops |->
                                            remover_visit_operand(reused, data.terminator.ops[i])]])

-----------------------------------------------------------------------------
(* The SSA oracle and the dominators, computed from the body.              *)

Blocks(b) == 0 .. Len(b) - 1

RECURSIVE ReachFrom(_, _, _)
\* The blocks reachable from the set `seen` without entering `removed`.
ReachFrom(b, seen, removed) ==
    LET next == (seen \cup UNION {b[x + 1].terminator.targets : x \in seen}) \ {removed}
    IN IF next = seen THEN seen ELSE ReachFrom(b, next, removed)

\* BasicBlocks::dominators: <<x, y>> when every path from the entry block
\* to y passes through x.
Dominators(b) ==
    {<<x, y>> \in Blocks(b) \X Blocks(b) :
        x = y \/ y \notin ReachFrom(b, {0} \ {x}, x)}

\* Every location of the body, statements and terminators.
Locations(b) ==
    UNION {{Location(x, i) : i \in 0 .. Len(b[x + 1].statements)} : x \in Blocks(b)}

IsTerminator(b, loc) == loc.statement_index = Len(b[loc.block + 1].statements)

StatementAt(b, loc) == b[loc.block + 1].statements[loc.statement_index + 1]

\* The locals a place reads: its base and the locals of its Index elements.
PlaceLocals(place) ==
    {place.local} \cup
    {place.projection[i].n : i \in {j \in DOMAIN place.projection : place.projection[j].k = "Index"}}

OperandLocals(op) == IF op.k = "Constant" THEN {} ELSE PlaceLocals(op.place)

RvalueLocals(rv) ==
    UNION {OperandLocals(rv.ops[i]) : i \in DOMAIN rv.ops}
    \cup (IF rv.k \in {"CopyForDeref", "Len", "Discriminant", "Ref", "AddressOf"}
          THEN PlaceLocals(rv.place) ELSE {})

\* The locals read at a location.
UsedLocals(b, loc) ==
    IF IsTerminator(b, loc)
    THEN UNION {OperandLocals(b[loc.block + 1].terminator.ops[i]) :
                    i \in DOMAIN b[loc.block + 1].terminator.ops}
    ELSE LET stmt == StatementAt(b, loc)
         IN CASE stmt.k = "Assign" -> RvalueLocals(stmt.rv)
              [] stmt.k = "PlaceMention" -> PlaceLocals(stmt.place)
              [] OTHER -> {}

\* The local is borrowed or has its address taken directly.
Borrowed(b, local) ==
    \E loc \in Locations(b) :
        /\ ~IsTerminator(b, loc)
        /\ StatementAt(b, loc).k = "Assign"
        /\ StatementAt(b, loc).rv.k \in {"Ref", "AddressOf"}
        /\ StatementAt(b, loc).rv.place.local = local
        /\ ~is_indirect_first_projection(StatementAt(b, loc).rv.place)

\* The definitions of a local: being an argument, and every assignment.
Defs(b, args, local) ==
    (IF local <= args THEN {DefArgument} ELSE {})
    \cup {DefBody(loc) : loc \in {l \in Locations(b) :
            /\ ~IsTerminator(b, l)
            /\ StatementAt(b, l).k = "Assign"
            /\ StatementAt(b, l).local = local}}

\* DefLocation::dominates under the dominators `dom`.
def_dominates(def, loc, dom) ==
    IF def.arg THEN TRUE
    ELSE IF def.loc.block = loc.block THEN def.loc.statement_index + 1 <= loc.statement_index
    ELSE <<def.loc.block, loc.block>> \in dom

\* SsaLocals::new: a local is SSA when it has exactly one definition, is
\* not borrowed, and every use of it is dominated by that definition.
SsaLocalsNew(b, args, decls) ==
    LET dom == Dominators(b) IN
    [local \in DOMAIN decls |->
        LET defs == Defs(b, args, local) IN
        IF /\ Cardinality(defs) = 1
           /\ ~Borrowed(b, local)
           /\ \A loc \in Locations(b) :
                local \in UsedLocals(b, loc) =>
                    def_dominates(CHOOSE d \in defs : TRUE, loc, dom)
        THEN Some(CHOOSE d \in defs : TRUE)
        ELSE None]

\* The rank of a definition in SsaLocals::assignment_order: arguments
\* first, then the assignments in reverse postorder (blocks are numbered
\* in reverse postorder).
DefRank(local) ==
    LET def == Unwrap(ssa[local])
    IN IF def.arg THEN local
       ELSE 100 + 10 * def.loc.block + def.loc.statement_index

\* The k-th local of assignment_order (k from 1), if any.
AssignmentOrder(k) ==
    LET ssa_locals == {l \in Locals : IsSome(ssa[l])}
        hit == {l \in ssa_locals :
                    Cardinality({m \in ssa_locals : DefRank(m) < DefRank(l)}) = k - 1}
    IN IF hit = {} THEN None ELSE Some(CHOOSE l \in hit : TRUE)

-----------------------------------------------------------------------------
(* propagate_ssa.                                                          *)

vars ==
    <<body, local_decls, arg_count, ssa, dominators, values, evaluated, locals,
      rev_locals, next_opaque, reused_locals, phase, cursor, run, input, output1, last>>

\* The VnState the pass holds, as a record.
S ==
    [values |-> values, evaluated |-> evaluated, locals |-> locals,
     rev_locals |-> rev_locals, next_opaque |-> next_opaque,
     reused_locals |-> reused_locals]

SetState(s) ==
    /\ values' = s.values
    /\ evaluated' = s.evaluated
    /\ locals' = s.locals
    /\ rev_locals' = s.rev_locals
    /\ next_opaque' = s.next_opaque
    /\ reused_locals' = s.reused_locals

Cursor(order, location) == [order |-> order, location |-> location]

\* No VnState method has been called directly yet.
NoCall == [op |-> "", arg |-> <<>>, ret |-> None]

\* The start of propagate_ssa on body b: SsaLocals::new, the clone of the
\* dominators and VnState::new.
Start(b, decls, args) ==
    /\ body = b
    /\ local_decls = decls
    /\ arg_count = args
    /\ ssa = SsaLocalsNew(b, args, decls)
    /\ dominators = Dominators(b)
    /\ values = <<>>
    /\ evaluated = <<>>
    /\ locals = [l \in DOMAIN decls |-> None]
    /\ rev_locals = <<>>
    /\ next_opaque = Some(0)
    /\ reused_locals = {}
    /\ phase = "learn"
    /\ cursor = Cursor(1, Location(0, 0))
    /\ run = 1
    /\ input = b
    /\ output1 = <<>>
    /\ last = NoCall

SetStatement(b, loc, stmt) == [b EXCEPT ![loc.block + 1].statements[loc.statement_index + 1] = stmt]

\* `let value = value.or_else(|| state.new_opaque()).unwrap(); state.assign(local, value)`
learn_assign(o, local) == assign(o.s, local, Unwrap(o.r))

\* `value.or_else(|| state.new_opaque())`
or_new_opaque(res) == IF IsSome(res.r) THEN Ret(res.s, res.r) ELSE new_opaque(res.s)

\* A callback that learns the rvalue whatever the declared type of the
\* local.
LearnRvalueAnyType(res, local, stmt, location) ==
    /\ body' = SetStatement(body, location, [stmt EXCEPT !.rv = res.x])
    /\ SetState(learn_assign(or_new_opaque(res), local))

\* The callback on AssignedValue::Rvalue, after simplify_rvalue.
LearnRvalue(res, local, stmt, location) ==
    /\ body' = SetStatement(body, location, [stmt EXCEPT !.rv = res.x])
    /\ IF local_decls[local] # RvalueTy(res.x)
       THEN SetState(res.s)
       ELSE SetState(learn_assign(or_new_opaque(res), local))

\* The callback on AssignedValue::Arg.
LearnArg(local) ==
    /\ SetState(learn_assign(new_opaque(S), local))
    /\ UNCHANGED body

\* The callback of ssa.for_each_assignment_mut, for one SSA local.
LearnLocal(local, def) ==
    IF def.arg
    THEN LearnArg(local)
    ELSE LearnRvalue(simplify_rvalue(S, StatementAt(body, def.loc).rv, def.loc),
                     local, StatementAt(body, def.loc), def.loc)

\* ssa.for_each_assignment_mut, one SSA local in assignment order.
Learn ==
    /\ phase = "learn"
    /\ IsSome(AssignmentOrder(cursor.order))
    /\ LearnLocal(Unwrap(AssignmentOrder(cursor.order)),
                  Unwrap(ssa[Unwrap(AssignmentOrder(cursor.order))]))
    /\ cursor' = [cursor EXCEPT !.order = @ + 1]
    /\ UNCHANGED <<local_decls, arg_count, ssa, dominators, phase, run, input, output1, last>>

\* A start of the traversal that leaves the counter of opaques alone.
StopOpaquesLate ==
    /\ phase = "learn"
    /\ ~IsSome(AssignmentOrder(cursor.order))
    /\ next_opaque' = next_opaque
    /\ phase' = "replace"
    /\ cursor' = [cursor EXCEPT !.location = Location(0, 0)]
    /\ UNCHANGED <<body, local_decls, arg_count, ssa, dominators, values, evaluated, locals,
                   rev_locals, reused_locals, run, input, output1, last>>

\* `state.next_opaque = None`, once every assignment has been learned.
StopOpaques ==
    /\ phase = "learn"
    /\ ~IsSome(AssignmentOrder(cursor.order))
    /\ next_opaque' = None
    /\ phase' = "replace"
    /\ cursor' = [cursor EXCEPT !.location = Location(0, 0)]
    /\ UNCHANGED <<body, local_decls, arg_count, ssa, dominators, values, evaluated,
                   locals, rev_locals, reused_locals, run, input, output1, last>>

\* The visitor's result on a statement is stored in the body.
StoreStatement(res, location) ==
    /\ SetState(res.s)
    /\ body' = SetStatement(body, location, res.x)

\* The visitor's result on a terminator is stored in the body.
StoreTerminator(res, b) ==
    /\ SetState(res.s)
    /\ body' = [body EXCEPT ![b + 1].terminator = res.x]

\* visit_basic_block_data, one statement.
VisitStatement ==
    /\ phase = "replace"
    /\ ~IsTerminator(body, cursor.location)
    /\ StoreStatement(visit_statement(S, StatementAt(body, cursor.location), cursor.location),
                      cursor.location)
    /\ cursor' = [cursor EXCEPT !.location = successor_within_block(@)]
    /\ UNCHANGED <<local_decls, arg_count, ssa, dominators, phase, run, input, output1, last>>

\* visit_basic_block_data, the terminator; then the next block in reverse
\* postorder, or the end of the traversal.
VisitTerminator ==
    /\ phase = "replace"
    /\ IsTerminator(body, cursor.location)
    /\ StoreTerminator(visit_terminator(S, body[cursor.location.block + 1].terminator,
                                        cursor.location),
                       cursor.location.block)
    /\ IF cursor.location.block + 1 < Len(body)
       THEN /\ phase' = phase
            /\ cursor' = [cursor EXCEPT !.location = Location(cursor.location.block + 1, 0)]
       ELSE /\ phase' = "fixup"
            /\ cursor' = cursor
    /\ UNCHANGED <<local_decls, arg_count, ssa, dominators, run, input, output1, last>>

\* StorageRemover { reused_locals }.visit_body_preserves_cfg(body)
RemoveStorage ==
    /\ phase = "fixup"
    /\ body' = [b \in DOMAIN body |-> remover_visit_block(reused_locals, body[b])]
    /\ phase' = "done"
    /\ UNCHANGED <<local_decls, arg_count, ssa, dominators, values, evaluated, locals,
                   rev_locals, next_opaque, reused_locals, cursor, run, input, output1, last>>

\* The pass is run again on the body it returned.
Rerun ==
    /\ phase = "done"
    /\ run = 1
    /\ run' = 2
    /\ output1' = body
    /\ input' = body
    /\ ssa' = SsaLocalsNew(body, arg_count, local_decls)
    /\ SetState(VnStateNew(Locals))
    /\ phase' = "learn"
    /\ cursor' = Cursor(1, Location(0, 0))
    /\ UNCHANGED <<body, local_decls, arg_count, dominators, last>>

-----------------------------------------------------------------------------
(* The bodies the pass is run on.                                          *)

\* The number of statements of a body.
MaxStmts == 3

U8(n) == ConstOp(ScalarC(n, "u8"))
L(local) == LocalPlace(local)

\* Locals 1 to 3 are arguments.
CoreDecls ==
    <<"u8", "usize", "&u8", "u8", "u8", "usize", "[u8;5]", "&u8", "[u8;2]", "[u8;2]">>

CoreMenu ==
    {Assign(4, BinaryOpRv("Add", Copy(L(1)), Copy(L(1)))),
     Assign(5, BinaryOpRv("Add", Copy(L(1)), Copy(L(1)))),
     Assign(4, BinaryOpRv("Add", U8(1), U8(2))),
     Assign(5, Use(Move(L(4)))),
     StorageLive(4),
     StorageDead(4),
     Assign(7, AggregateRv("Array", "u8", 0, [i \in 1 .. 5 |-> Copy(L(4))])),
     Assign(6, Use(Copy(L(2)))),
     Assign(5, Use(Copy(Place(7, <<Index(6)>>)))),
     Assign(8, Use(Copy(L(3)))),
     Assign(5, Use(Copy(Place(8, <<Deref>>)))),
     Assign(9, RepeatRv(Copy(L(4)), 2)),
     Assign(10, RepeatRv(U8(3), 2))}

\* The control-flow graph: one block, one block with the statements inside
\* the storage scope of local 4, or a block that branches to two blocks
\* holding the last two statements.
MkBody(stmts, shape, discr) ==
    LET n == Len(stmts) IN
    IF shape = "straight" \/ n < 2
    THEN <<BasicBlockData(stmts, Return)>>
    ELSE IF shape = "scoped"
    THEN <<BasicBlockData(<<StorageLive(4)>> \o stmts \o <<StorageDead(4)>>, Return)>>
    ELSE <<BasicBlockData(SubSeq(stmts, 1, n - 2), SwitchInt(discr, {1, 2})),
           BasicBlockData(<<stmts[n - 1]>>, Return),
           BasicBlockData(<<stmts[n]>>, Return)>>

Bodies(menu, shapes, discr, n) ==
    {MkBody(stmts, shape, discr) : stmts \in [1 .. n -> menu], shape \in shapes}

\* Bodies without arguments whose locals are assigned twice, borrowed or
\* never assigned: the statements below fold without any SSA local.
FoldMenu ==
    {Assign(4, BinaryOpRv("Add", U8(1), U8(2))),
     Assign(5, CopyForDeref(L(8))),
     Assign(7, AggregateRv("Array", "u8", 0, [i \in 1 .. 5 |-> U8(1)])),
     Assign(5, Use(Copy(L(4)))),
     Assign(8, Ref("Shared", L(4))),
     StorageLive(4)}

Init ==
    \/ \E b \in Bodies(CoreMenu, {"straight", "scoped", "branch"}, Move(L(4)), MaxStmts) :
            Start(b, CoreDecls, 3)
    \/ \E b \in Bodies(FoldMenu, {"straight", "branch"}, Move(L(5)), MaxStmts) :
            Start(b, CoreDecls, 0)

Next == Learn \/ StopOpaques \/ VisitStatement \/ VisitTerminator \/ RemoveStorage

Spec == Init /\ [][Next]_vars

-----------------------------------------------------------------------------
(* The pass run twice on one body.                                         *)

\* The number of statements of a body the pass is run on twice.
TwiceStmts == 4

TwiceMenu ==
    {Assign(4, BinaryOpRv("Add", U8(1), U8(2))),
     Assign(9, RepeatRv(Copy(L(4)), 2)),
     Assign(10, RepeatRv(U8(3), 2)),
     Assign(5, BinaryOpRv("Add", Copy(L(1)), Copy(L(1)))),
     StorageDead(9)}

InitTwice ==
    \E b \in Bodies(TwiceMenu, {"straight", "branch"}, Move(L(4)), TwiceStmts) :
        Start(b, CoreDecls, 3)

NextTwice ==
    Learn \/ StopOpaques \/ VisitStatement \/ VisitTerminator \/ RemoveStorage \/ Rerun

SpecTwice == InitTwice /\ [][NextTwice]_vars

-----------------------------------------------------------------------------
(* The interner called method by method.  Which methods the simplifier     *)
(* calls, and in which order, depends on the statements it walks over;     *)
(* here they are called in every order, at the end of the learning phase   *)
(* and during replacement, and `last` records each call.                   *)

\* The number of values interned by the calls, beyond one per argument.
MaxInterned == 4

EmptyBody == <<BasicBlockData(<<>>, Return)>>

ConstMenu == {ScalarC(1, "u8"), SliceC, FnPtrC}

\* Borrows and raw borrows, twice of the same place.
AddressMenu ==
    {Ref("Shared", L(4)), AddressOf("Not", L(4)), Ref("Shared", Place(3, <<Deref>>))}

\* The derived values inserted directly: operations on the first or the
\* last value interned so far.
ValueMenu ==
    UNION {{UnaryOp("Neg", a), Repeat(a, 2)} :
                a \in {0, Len(values) - 1} \cap (0 .. Len(values) - 1)}

\* A function without arguments, before its first assignment is learned.
InitIntern == Start(EmptyBody, CoreDecls, 0)

\* Every argument has been learned and the interner may still grow.
Ready ==
    /\ phase \in {"learn", "replace"}
    /\ ~IsSome(AssignmentOrder(cursor.order))
    /\ Len(values) < arg_count + MaxInterned

\* A direct call of a VnState method: its effect on the state, and the
\* record of the call.
Call(op, arg, res) ==
    /\ SetState(res.s)
    /\ last' = [op |-> op, arg |-> arg, ret |-> res.r]
    /\ UNCHANGED <<body, local_decls, arg_count, ssa, dominators, phase, cursor, run,
                   input, output1>>

CallInsert ==
    /\ Ready
    /\ \E value \in ValueMenu : Call("insert", value, InsertSome(S, value))

CallNewOpaque ==
    /\ Ready
    /\ Call("new_opaque", <<>>, new_opaque(S))

CallInsertConstant ==
    /\ Ready
    /\ \E value \in ConstMenu : Call("insert_constant", value, insert_constant(S, value))

CallSimplifyRvalue(menu) ==
    /\ Ready
    /\ \E rvalue \in menu :
          Call("simplify_rvalue", rvalue, simplify_rvalue(S, rvalue, cursor.location))

CallAddressRvalue == CallSimplifyRvalue(AddressMenu)

CallNewPointer ==
    /\ Ready
    /\ \E kind \in {"Ref:Shared", "Address:Not"} :
          Call("new_pointer", [place |-> L(4), kind |-> kind], new_pointer(S, L(4), kind))

NextIntern ==
    \/ StopOpaques
    \/ CallInsert
    \/ CallNewOpaque
    \/ CallInsertConstant
    \/ CallAddressRvalue
    \/ CallNewPointer

SpecIntern == InitIntern /\ [][NextIntern]_vars

-----------------------------------------------------------------------------
(* Reads through pointers: a function whose arguments are pointers of      *)
(* every kind, and the calls that read through them once the arguments     *)
(* have been learned.                                                      *)

PointerDecls ==
    <<"&u8", "&mut u8", "*const u8", "Box<u8>", "&Cell<u8>", "&[u8]", "&'static u8">>

\* A read `copy *_p` for every pointer argument.
DerefMenu == {Use(Copy(Place(p, <<Deref>>))) : p \in DOMAIN PointerDecls}

InitDeref == Start(EmptyBody, PointerDecls, Len(PointerDecls))

CallProject ==
    /\ Ready
    /\ \E p \in Locals :
          /\ IsSome(locals[p])
          /\ Call("project", Place(p, <<Deref>>), project(S, L(p), Unwrap(locals[p]), Deref))

CallDerefRvalue == CallSimplifyRvalue(DerefMenu)

NextDeref == Learn \/ StopOpaques \/ CallProject \/ CallDerefRvalue

SpecDeref == InitDeref /\ [][NextDeref]_vars

-----------------------------------------------------------------------------
(* Assignments whose right-hand side has a subtype of the local's type:    *)
(* `&'static u8` stands for a type that coerces to `&u8` without being     *)
(* equal to it.                                                            *)

\* Local 1 is the argument.
SubtypeDecls == <<"&'static u8", "&u8", "&u8", "u8", "u8", "&'static u8">>

SubtypeMenu ==
    {Assign(2, Use(Copy(L(1)))),
     Assign(6, Use(Copy(L(1)))),
     Assign(3, Use(Copy(L(2)))),
     Assign(3, Use(Copy(L(6)))),
     Assign(4, Use(Copy(Place(2, <<Deref>>)))),
     Assign(5, Use(Copy(Place(1, <<Deref>>)))),
     Assign(4, Use(Copy(Place(6, <<Deref>>)))),
     StorageLive(2)}

InitSubtype ==
    \E b \in Bodies(SubtypeMenu, {"straight", "branch"}, Copy(L(4)), MaxStmts) :
        Start(b, SubtypeDecls, 1)

SpecSubtype == InitSubtype /\ [][Next]_vars

-----------------------------------------------------------------------------
(* Constants made from evaluated values: right-hand sides over integers,   *)
(* pointers and allocations with and without provenance are simplified     *)
(* directly, and try_as_constant is called on the values they intern.      *)

\* An allocation holding an integer and a function pointer.
PairWithPointer == IndirectProvC(<<1, 9>>, "(u8,fn())")

ProvenanceMenu ==
    {Use(U8(1)),
     Use(ConstOp(SliceC)),
     Use(ConstOp(FnPtrC)),
     Use(ConstOp(PairWithPointer)),
     AggregateRv("Tuple", "", 0, <<U8(1), ConstOp(FnPtrC)>>),
     AggregateRv("Tuple", "", 0, <<U8(1), U8(2)>>),
     AggregateRv("Tuple", "", 0, <<>>),
     Rvalue("CheckedBinaryOp", "Add", <<U8(1), U8(2)>>, NoPlace, 0, ""),
     Ref("Shared", Place(3, <<Deref>>))}

InitProvenance == Start(EmptyBody, CoreDecls, 0)

CallProvenanceRvalue == CallSimplifyRvalue(ProvenanceMenu)

CallTryAsConstant ==
    /\ phase \in {"learn", "replace"}
    /\ \E index \in 0 .. Len(values) - 1 :
          Call("try_as_constant", index, Ret(S, try_as_constant(S, index)))

NextProvenance == StopOpaques \/ CallProvenanceRvalue \/ CallTryAsConstant

SpecProvenance == InitProvenance /\ [][NextProvenance]_vars

-----------------------------------------------------------------------------
(* Reads of enum fields: enum values are built from the arguments, and     *)
(* project is called with downcasts to either variant and with the field   *)
(* of the variant read.                                                    *)

\* Locals 1 and 2 are the arguments.
EnumDecls == <<"u8", "u8", "Result<u8,u8>", "Option<u8>">>

EnumMenu ==
    {AggregateRv("Adt", "Result<u8,u8>", 0, <<Copy(L(1))>>),
     AggregateRv("Adt", "Result<u8,u8>", 1, <<Copy(L(2))>>),
     AggregateRv("Adt", "Option<u8>", 1, <<Copy(L(1))>>)}

InitEnum == Start(EmptyBody, EnumDecls, 2)

CallEnumRvalue == CallSimplifyRvalue(EnumMenu)

\* project with a Downcast of an enum value, or with field 0 of a
\* downcast value.
CallProjectElem ==
    /\ Ready
    /\ \E index \in 0 .. Len(values) - 1, elem \in {Downcast(0), Downcast(1), Field(0, "u8")} :
          /\ elem.k = "Downcast" => values[index + 1].k = "Aggregate"
          /\ elem.k = "Field" =>
                values[index + 1].k = "Projection" /\ values[index + 1].elem.k = "Downcast"
          /\ Call("project", [value |-> index, elem |-> elem],
                  project(S, L(3), index, elem))

NextEnum == Learn \/ StopOpaques \/ CallEnumRvalue \/ CallProjectElem

SpecEnum == InitEnum /\ [][NextEnum]_vars

-----------------------------------------------------------------------------
(* Aggregates: simplify_aggregate is called, while opaques are handed out  *)
(* and after, on arrays, tuples, an enum value and a union initializer,    *)
(* with operands that fold to a constant, that are held by a local, that   *)
(* are held by no local, and that have no value.                           *)

\* Locals 1 to 3 are the arguments; local 4 is never assigned.
AggregateDecls == <<"u8", "u8", "(u8,u8)", "u8">>

ArrayOf(n, op) == AggregateRv("Array", "", 0, [i \in 1 .. n |-> op])

AggregateMenu ==
    {ArrayOf(5, U8(1)),
     ArrayOf(5, Copy(L(1))),
     ArrayOf(5, Copy(Place(3, <<Field(0, "u8")>>))),
     ArrayOf(5, Copy(L(4))),
     ArrayOf(4, Copy(L(1))),
     ArrayOf(4, U8(1)),
     AggregateRv("Array", "", 0, <<Copy(L(1)), Copy(L(1)), Copy(L(1)), Copy(L(1)), Copy(L(2))>>),
     AggregateRv("Tuple", "", 0, <<Copy(L(1)), Copy(L(4))>>),
     AggregateRv("Tuple", "", 0, <<>>),
     AggregateRv("Adt", "Option<u8>", 0, <<>>),
     AggregateRv("Adt", "Option<u8>", 1, <<Copy(L(4))>>),
     AggregateRv("Union", "(u8,u8)", 0, <<Copy(L(1))>>)}

InitAggregate == Start(EmptyBody, AggregateDecls, 3)

\* A direct call of simplify_aggregate; the record of the call keeps the
\* rvalue the call leaves behind.
CallSimplifyAggregate ==
    /\ Ready
    /\ \E rvalue \in AggregateMenu :
          /\ SetState(simplify_aggregate(S, rvalue, cursor.location).s)
          /\ last' = [op |-> "simplify_aggregate", arg |-> rvalue,
                      ret |-> simplify_aggregate(S, rvalue, cursor.location).r,
                      x |-> simplify_aggregate(S, rvalue, cursor.location).x]
          /\ UNCHANGED <<body, local_decls, arg_count, ssa, dominators, phase, cursor, run,
                         input, output1>>

NextAggregate == Learn \/ StopOpaques \/ CallSimplifyAggregate

SpecAggregate == InitAggregate /\ [][NextAggregate]_vars

-----------------------------------------------------------------------------
(* The pass on bodies that move out of locals, of a field of a local and   *)
(* in the discriminant of the switch.                                      *)

\* Locals 1 to 3 are the arguments.
MoveDecls == <<"u8", "usize", "(u8,u8)", "u8", "u8", "(u8,u8)">>

MoveMenu ==
    {Assign(4, Use(Copy(L(1)))),
     Assign(5, Use(Move(L(1)))),
     Assign(5, Use(Move(L(4)))),
     Assign(6, Use(Copy(L(3)))),
     Assign(5, Use(Move(Place(6, <<Field(0, "u8")>>)))),
     StorageLive(4),
     StorageDead(4),
     StorageLive(6)}

InitMove ==
    \E b \in Bodies(MoveMenu, {"straight", "scoped", "branch"}, Move(L(1)), MaxStmts) :
        Start(b, MoveDecls, 3)

SpecMove == InitMove /\ [][Next]_vars

-----------------------------------------------------------------------------
(* Reads of array elements at a constant index: arrays are built from the  *)
(* arguments, and project is called with offsets from either end, in a     *)
(* build with overflow checks or in one without.                           *)

\* Locals 1 and 2 are the arguments.
ElementDecls == <<"u8", "u8", "[u8;2]">>

ElementMenu ==
    {AggregateRv("Array", "u8", 0, <<Copy(L(1)), Copy(L(2))>>),
     AggregateRv("Array", "u8", 0, <<Copy(L(2)), Copy(L(1))>>),
     RepeatRv(Copy(L(1)), 2)}

\* The largest offset of a ConstantIndex element.
MaxOffset == 3

InitElement == Start(EmptyBody, ElementDecls, 2)

CallElementRvalue == CallSimplifyRvalue(ElementMenu)

\* The panic of a build with overflow checks: the pass stops there.
ProjectPanics(index, elem) ==
    /\ index_from_end_overflows(S, index, elem)
    /\ phase' = "panicked"
    /\ last' = [op |-> "project", arg |-> [value |-> index, elem |-> elem], ret |-> None,
                panic |-> TRUE]
    /\ UNCHANGED <<body, local_decls, arg_count, ssa, dominators, values, evaluated, locals,
                   rev_locals, next_opaque, reused_locals, cursor, run, input, output1>>

\* project returns, in either build.
ProjectReturns(index, elem, res) ==
    /\ SetState(res.s)
    /\ last' = [op |-> "project", arg |-> [value |-> index, elem |-> elem], ret |-> res.r,
                panic |-> FALSE]
    /\ UNCHANGED <<body, local_decls, arg_count, ssa, dominators, phase, cursor, run, input,
                   output1>>

\* project with a ConstantIndex element on an array or a repeat, and with
\* the first element on the value of an argument.
CallProjectConstantIndex ==
    /\ Ready
    /\ \E index \in 0 .. Len(values) - 1, offset \in 0 .. MaxOffset, from_end \in BOOLEAN :
          /\ values[index + 1].k \in {"Aggregate", "Repeat", "Opaque"}
          /\ values[index + 1].k = "Opaque" => offset = 0 /\ ~from_end
          /\ \/ ProjectPanics(index, ConstantIndex(offset, offset + 1, from_end))
             \/ ProjectReturns(index, ConstantIndex(offset, offset + 1, from_end),
                               project(S, L(3), index,
                                       ConstantIndex(offset, offset + 1, from_end)))

NextElement == Learn \/ StopOpaques \/ CallElementRvalue \/ CallProjectConstantIndex

SpecElement == InitElement /\ [][NextElement]_vars

-----------------------------------------------------------------------------
(* Properties of the pass.                                                 *)

\* The locals read at `loc` that the body handed to this run did not read
\* there: the substitution sources the pass inserted at `loc`.
SubstitutedLocals(loc) == UsedLocals(body, loc) \ UsedLocals(input, loc)

AllSubstitutedLocals == UNION {SubstitutedLocals(loc) : loc \in Locations(body)}

\* The unique assignment of SSA local y comes strictly before `loc` on
\* every path: y is an argument, or is assigned earlier in the block of
\* `loc`, or in another block that dominates the block of `loc`.
StrictlyBefore(y, loc) ==
    /\ IsSome(ssa[y])
    /\ LET def == Unwrap(ssa[y]) IN
       \/ def.arg
       \/ /\ def.loc.block = loc.block
          /\ def.loc.statement_index < loc.statement_index
       \/ /\ def.loc.block # loc.block
          /\ <<def.loc.block, loc.block>> \in Dominators(input)

\* C1: every local the pass substitutes at a location (as a right-hand
\* side, the base of a place, an Index local or a Repeat operand) is an SSA
\* local whose unique assignment strictly dominates that location, and no
\* assignment is rewritten to read the local it defines.
C1_SubstitutionDominated ==
    \A loc \in Locations(body) :
        /\ \A y \in SubstitutedLocals(loc) : StrictlyBefore(y, loc)
        /\ (~IsTerminator(body, loc) /\ StatementAt(body, loc).k = "Assign")
                => StatementAt(body, loc).local \notin SubstitutedLocals(loc)

\* The pass has finished and substituted a local assigned in another block
\* than the one it is now read in.
C1_Witness ==
    /\ phase = "done"
    /\ \E loc \in Locations(body) : \E y \in SubstitutedLocals(loc) :
          /\ ~Unwrap(ssa[y]).arg
          /\ Unwrap(ssa[y]).loc.block # loc.block

StorageStatements(b, l) ==
    {loc \in Locations(b) :
        /\ ~IsTerminator(b, loc)
        /\ StatementAt(b, loc).k \in {"StorageLive", "StorageDead"}
        /\ StatementAt(b, loc).local = l}

\* C2: when the pass ends, every local it inserted as a substitution source
\* is in reused_locals, and neither a StorageLive nor a StorageDead of a
\* reused local is left in the body.
C2_StoragePairsErased ==
    phase = "done" =>
        /\ AllSubstitutedLocals \subseteq reused_locals
        /\ \A l \in reused_locals : StorageStatements(body, l) = {}

\* The pass has finished, it substituted a local, and the input held both a
\* StorageLive and a StorageDead of that local.
C2_Witness ==
    /\ phase = "done"
    /\ \E l \in AllSubstitutedLocals :
          {StatementAt(input, loc).k : loc \in StorageStatements(input, l)}
              = {"StorageLive", "StorageDead"}

\* C3: the pass keeps the blocks, the successors of every terminator and the
\* number of statements of every block; a statement changes kind only from
\* StorageLive or StorageDead to a no-op.
C3_CfgPreserved ==
    /\ Len(body) = Len(input)
    /\ \A b \in DOMAIN body :
          /\ body[b].terminator.k = input[b].terminator.k
          /\ body[b].terminator.targets = input[b].terminator.targets
          /\ Len(body[b].statements) = Len(input[b].statements)
          /\ \A i \in DOMAIN body[b].statements :
                \/ body[b].statements[i].k = input[b].statements[i].k
                \/ /\ input[b].statements[i].k \in {"StorageLive", "StorageDead"}
                   /\ body[b].statements[i].k = "Nop"

\* The pass has finished on a body of several blocks, it rewrote the
\* discriminant of the SwitchInt and it turned a storage statement into a
\* no-op.
C3_Witness ==
    /\ phase = "done"
    /\ Len(body) > 1
    /\ body[1].terminator # input[1].terminator
    /\ \E loc \in Locations(body) :
          /\ ~IsTerminator(body, loc)
          /\ StatementAt(body, loc).k = "Nop"
          /\ StatementAt(input, loc).k # "Nop"

NoSsaLocals == \A l \in Locals : ~IsSome(ssa[l])

\* C4 as stated: on a body without SSA locals the pass changes nothing.
C4_NoSsaIdentity == (phase = "done" /\ NoSsaLocals) => body = input

\* The right-hand side `new` is `old` folded without reading any local: an
\* rvalue over constants replaced by its constant, a CopyForDeref turned
\* into a plain copy of the same place, or an array of equal constants
\* turned into a Repeat of that constant.
FoldedRvalue(old, new) ==
    \/ /\ new.k = "Use"
       /\ new.ops[1].k = "Constant"
       /\ RvalueLocals(old) = {}
    \/ /\ old.k = "CopyForDeref"
       /\ new = Use(Copy(old.place))
    \/ /\ old.k = "Aggregate"
       /\ old.x = "Array"
       /\ new.k = "Repeat"
       /\ new.n = Len(old.ops)
       /\ new.ops[1].k = "Constant"
       /\ \A i \in DOMAIN old.ops : old.ops[i] = new.ops[1]

\* C4, amended: on a body without SSA locals the pass learns no local,
\* reuses none, and leaves every terminator, storage statement, place and
\* Move/Copy operand as it was; an assignment changes only by having its
\* right-hand side folded as FoldedRvalue describes.
C4_NoSsaOnlyFolds ==
    NoSsaLocals =>
        /\ \A l \in Locals : locals[l] = None
        /\ rev_locals = <<>>
        /\ reused_locals = {}
        /\ Len(body) = Len(input)
        /\ \A b \in DOMAIN body :
              /\ body[b].terminator = input[b].terminator
              /\ Len(body[b].statements) = Len(input[b].statements)
              /\ \A i \in DOMAIN body[b].statements :
                    LET old == input[b].statements[i]
                        new == body[b].statements[i]
                    IN \/ new = old
                       \/ /\ old.k = "Assign"
                          /\ new.k = "Assign"
                          /\ new.local = old.local
                          /\ FoldedRvalue(old.rv, new.rv)

\* The pass has finished on a body without SSA locals that holds a storage
\* statement and a Move operand, and the body it returns differs from its
\* input.
C4_Witness ==
    /\ phase = "done"
    /\ NoSsaLocals
    /\ body # input
    /\ body[1].terminator.k = "SwitchInt"
    /\ \E loc \in Locations(body) :
          ~IsTerminator(body, loc) /\ StatementAt(body, loc).k = "StorageLive"

-----------------------------------------------------------------------------
(* Properties of the interner.                                             *)

\* This step is a direct call of the VnState method `op`.
Called(op) == last' # last /\ last'.op = op

\* The indices interned so far.
Interned == 0 .. Len(values) - 1

\* The interned values of a given kind, as 1-based positions in `values`.
OfKind(kinds) == {i \in DOMAIN values : values[i].k \in kinds}

\* C6: every insert_constant call on a non-deterministic constant that
\* returns an index returns a fresh one, different from every index
\* interned (and so returned) before, holding that constant; two mentions of
\* the same constant term never share a VnIndex.
C6_NonDeterministicFresh ==
    [][(Called("insert_constant") /\ ~is_deterministic(last'.arg) /\ IsSome(last'.ret)) =>
          /\ Unwrap(last'.ret) \notin Interned
          /\ Unwrap(last'.ret) = Len(values') - 1
          /\ values'[Len(values')].k = "Constant"
          /\ values'[Len(values')].c = last'.arg
          /\ \A i \in DOMAIN values : values[i] # values'[Len(values')]]_vars

\* Two mentions of the same byte-string literal are interned, the second by
\* the call just made, at two different indices.
C6_Witness ==
    /\ last.op = "insert_constant"
    /\ last.arg = SliceC
    /\ IsSome(last.ret)
    /\ \E i \in DOMAIN values :
          /\ i - 1 < Unwrap(last.ret)
          /\ values[i].k = "Constant"
          /\ values[i].c = SliceC

\* C7 as stated: an interned Constant has disambiguator 0 if and only if its
\* constant is deterministic.
C7_ZeroIffDeterministic ==
    \A i \in OfKind({"Constant"}) : (values[i].n = 0) <=> is_deterministic(values[i].c)

\* C7, amended: a deterministic constant has disambiguator 0; the
\* disambiguators of non-deterministic constants are values the counter
\* next_opaque has taken (0 for the first user of the counter), below its
\* current value, and no two non-deterministic constants share one.
C7_DisambiguatorFromCounter ==
    /\ \A i \in OfKind({"Constant"}) :
          /\ is_deterministic(values[i].c) => values[i].n = 0
          /\ (~is_deterministic(values[i].c) /\ IsSome(next_opaque)) =>
                values[i].n < Unwrap(next_opaque)
    /\ \A i, j \in OfKind({"Constant"}) :
          (/\ i # j
           /\ ~is_deterministic(values[i].c)
           /\ ~is_deterministic(values[j].c)) => values[i].n # values[j].n

\* A non-deterministic constant interned first holds disambiguator 0, next
\* to a deterministic one and to a later non-deterministic one.
C7_Witness ==
    /\ \E i \in OfKind({"Constant"}) : ~is_deterministic(values[i].c) /\ values[i].n = 0
    /\ \E i \in OfKind({"Constant"}) : ~is_deterministic(values[i].c) /\ values[i].n > 0
    /\ \E i \in OfKind({"Constant"}) : is_deterministic(values[i].c)

\* The counters of the interned Opaque and Address values are pairwise
\* distinct and below next_opaque.
CountersDistinct ==
    /\ \A i, j \in OfKind({"Opaque", "Address"}) : i # j => values[i].n # values[j].n
    /\ \A i \in OfKind({"Opaque", "Address"}) :
          IsSome(next_opaque) => values[i].n < Unwrap(next_opaque)

\* C8: a Ref or AddressOf rvalue for which simplify_rvalue returns an index
\* gets an index no interned value has, whatever its place and kind; and
\* the counters carried by Opaque and Address values are pairwise distinct
\* and smaller than next_opaque.
C8_AddressFresh ==
    /\ []CountersDistinct
    /\ [][(/\ Called("simplify_rvalue")
           /\ last'.arg.k \in {"Ref", "AddressOf"}
           /\ IsSome(last'.ret)) =>
             /\ Unwrap(last'.ret) \notin Interned
             /\ Unwrap(last'.ret) = Len(values') - 1
             /\ values'[Len(values')].k = "Address"]_vars

\* The same place has been borrowed twice with the same kind, the second
\* time by the call just made, next to an opaque value.
C8_Witness ==
    /\ last.op = "simplify_rvalue"
    /\ last.arg = Ref("Shared", L(4))
    /\ IsSome(last.ret)
    /\ \E i \in OfKind({"Address"}) :
          /\ i - 1 # Unwrap(last.ret)
          /\ values[i].place = values[Unwrap(last.ret) + 1].place
          /\ values[i].x = values[Unwrap(last.ret) + 1].x
    /\ OfKind({"Opaque"}) # {}

\* C9: insert(v) returns the index of the equal value already interned and
\* leaves values and evaluated alone, or else returns the previous length,
\* appends v and appends one entry to evaluated; evaluated is as long as
\* values, and no step changes the value or the evaluated entry of an index.
C9_InsertInterns ==
    /\ [](Len(evaluated) = Len(values))
    /\ [][/\ Len(values') >= Len(values)
          /\ \A i \in DOMAIN values :
                values'[i] = values[i] /\ evaluated'[i] = evaluated[i]
          /\ Called("insert") =>
                IF \E i \in DOMAIN values : values[i] = last'.arg
                THEN /\ \E i \in DOMAIN values :
                            values[i] = last'.arg /\ last'.ret = Some(i - 1)
                     /\ values' = values
                     /\ evaluated' = evaluated
                ELSE /\ last'.ret = Some(Len(values))
                     /\ values' = Append(values, last'.arg)
                     /\ Len(evaluated') = Len(evaluated) + 1]_vars

\* The call just made inserted a value that was interned already, after
\* another value was appended behind it.
C9_Witness ==
    /\ last.op = "insert"
    /\ IsSome(last.ret)
    /\ Unwrap(last.ret) + 1 < Len(values)
    /\ values[Unwrap(last.ret) + 1] = last.arg
    /\ Len(values) >= 3

-----------------------------------------------------------------------------
(* Properties of reads through pointers.                                   *)

\* The types of the immutable references to a Freeze pointee.
FreezeRefs == {"&u8", "&[u8]", "&'static u8"}

\* C10: project on a Deref step returns a value only when the base place
\* is an immutable reference to a Freeze type; for every other pointer it
\* returns nothing and interns nothing, and simplify_rvalue gives a read
\* through such a pointer no index.
C10_DerefOnlyFreezeRef ==
    [][/\ Called("project") =>
            /\ IsSome(last'.ret) => local_decls[last'.arg.local] \in FreezeRefs
            /\ local_decls[last'.arg.local] \notin FreezeRefs =>
                  last'.ret = None /\ values' = values
       /\ (/\ Called("simplify_rvalue")
           /\ last'.arg.k = "Use"
           /\ local_decls[last'.arg.ops[1].place.local] \notin FreezeRefs) =>
              last'.ret = None /\ values' = values]_vars

\* A read through a shared reference to u8 has been interned, and the call
\* just made was a read through a mutable reference.
C10_Witness ==
    /\ \E i \in OfKind({"Projection"}) : values[i].elem = Deref
    /\ last.op = "project"
    /\ local_decls[last.arg.local] = "&mut u8"
    /\ last.ret = None

-----------------------------------------------------------------------------
(* Properties of the learning phase.                                       *)

\* The SSA locals assigned by a statement of the body.
RvalueLocalsLearned == {l \in Locals : IsSome(ssa[l]) /\ ~Unwrap(ssa[l]).arg}

\* The type of the right-hand side that assigns SSA local l in the body
\* handed to the pass.
AssignedTy(l) == RvalueTy(StatementAt(input, Unwrap(ssa[l]).loc).rv)

\* The locals recorded in some list of rev_locals.
RecordedLocals ==
    UNION {{rev_locals[k][i] : i \in DOMAIN rev_locals[k]} : k \in DOMAIN rev_locals}

\* C11: an SSA local assigned by an rvalue has a value, and stands in
\* rev_locals, only if its declared type equals the type of its rvalue; a
\* local whose declared type differs has no value, is in no rev_locals list
\* and is never a substitution source.
C11_ExactTypeLearned ==
    \A l \in RvalueLocalsLearned :
        /\ (IsSome(locals[l]) \/ l \in RecordedLocals) => local_decls[l] = AssignedTy(l)
        /\ local_decls[l] # AssignedTy(l) =>
              /\ locals[l] = None
              /\ l \notin RecordedLocals
              /\ l \notin reused_locals
              /\ l \notin AllSubstitutedLocals

\* The pass has finished on a body in which one local was assigned a value
\* of a subtype and has no value, while another local of the exact type was
\* learned and reused.
C11_Witness ==
    /\ phase = "done"
    /\ \E l \in RvalueLocalsLearned : local_decls[l] # AssignedTy(l) /\ locals[l] = None
    /\ \E l \in RvalueLocalsLearned : local_decls[l] = AssignedTy(l) /\ IsSome(locals[l])
    /\ reused_locals # {}

-----------------------------------------------------------------------------
(* Properties of the constants written into the body.                      *)

\* The evaluated operands of the interned values, by 1-based position.
Evaluated == {i \in DOMAIN evaluated : IsSome(evaluated[i])}

\* C12: a constant that try_as_constant makes from an evaluated value
\* holds no provenance: op_to_prop_const returns nothing for an operand
\* that holds provenance, in memory or immediate, and the assertion of
\* try_as_constant holds for every interned value.
C12_NoProvenanceMaterialized ==
    /\ \A i \in Evaluated :
          /\ Unwrap(evaluated[i]).prov => op_to_prop_const(Unwrap(evaluated[i])) = None
          /\ IsSome(op_to_prop_const(Unwrap(evaluated[i]))) =>
                ~may_have_provenance(Unwrap(op_to_prop_const(Unwrap(evaluated[i]))))
          /\ try_as_constant_asserted(S, i - 1)
    /\ (/\ last.op = "try_as_constant"
        /\ IsSome(last.ret)
        /\ values[last.arg + 1].k # "Constant") => ~may_have_provenance(Unwrap(last.ret))

\* try_as_constant has just made an Indirect constant from an aggregate in
\* memory, while the interner holds an immediate pointer and an aggregate
\* in memory that holds a pointer.
C12_Witness ==
    /\ last.op = "try_as_constant"
    /\ IsSome(last.ret)
    /\ Unwrap(last.ret).k = "Indirect"
    /\ values[last.arg + 1].k = "Aggregate"
    /\ \E i \in Evaluated : Unwrap(evaluated[i]).prov /\ ~Unwrap(evaluated[i]).mem
    /\ \E i \in Evaluated :
          /\ Unwrap(evaluated[i]).prov
          /\ Unwrap(evaluated[i]).mem
          /\ values[i].k = "Aggregate"

-----------------------------------------------------------------------------
(* Properties of project.                                                  *)

\* C13: project with Field(f) on Projection(a, Downcast(r)), where a is an
\* Aggregate built with variant w, returns the aggregate's field f when
\* r = w and interns nothing; when r differs from w it returns the index
\* of the Projection value of the read, which is no field of the aggregate.
C13_FieldThroughDowncast ==
    [][(/\ Called("project")
        /\ last'.arg.elem.k = "Field"
        /\ values[last'.arg.value + 1].k = "Projection"
        /\ values[last'.arg.value + 1].elem.k = "Downcast"
        /\ values[values[last'.arg.value + 1].a + 1].k = "Aggregate") =>
          LET read == values[last'.arg.value + 1]
              written == values[read.a + 1]
          IN IF read.elem.n = written.n
             THEN /\ last'.ret = Some(written.fs[last'.arg.elem.n + 1])
                  /\ values' = values
             ELSE /\ IsSome(last'.ret)
                  /\ \A i \in DOMAIN written.fs : Unwrap(last'.ret) # written.fs[i]
                  /\ values'[Unwrap(last'.ret) + 1] =
                        Projection(last'.arg.value, last'.arg.elem)]_vars

\* The call just made read field 0 through a downcast to the variant the
\* aggregate was not built with, and the interner also holds a downcast of
\* an aggregate to the variant it was built with.
C13_Witness ==
    /\ last.op = "project"
    /\ last.arg.elem.k = "Field"
    /\ IsSome(last.ret)
    /\ values[Unwrap(last.ret) + 1].k = "Projection"
    /\ values[Unwrap(last.ret) + 1].elem.k = "Field"
    /\ values[values[last.arg.value + 1].a + 1].n # values[last.arg.value + 1].elem.n
    /\ \E i \in OfKind({"Projection"}) :
          /\ values[i].elem.k = "Downcast"
          /\ values[values[i].a + 1].k = "Aggregate"
          /\ values[values[i].a + 1].n = values[i].elem.n

-----------------------------------------------------------------------------
(* Properties of simplify_aggregate.                                       *)

\* The indices of the operands of the aggregate of the call being made, as
\* simplify_operand (or a fresh opaque) gives them.
OperandIndices == aggregate_fields(S, last'.arg.ops, cursor.location, 1, <<>>)

\* The array of the call being made has more than four operands, all of
\* the same VnIndex.
RepeatedArray(fs) ==
    /\ last'.arg.x = "Array"
    /\ IsSome(fs.r)
    /\ Len(Unwrap(fs.r)) > RepeatThreshold
    /\ \A i \in DOMAIN Unwrap(fs.r) : Unwrap(fs.r)[i] = Unwrap(fs.r)[1]

\* The call returned Repeat(first, n).
ReturnsRepeat(fs) ==
    /\ IsSome(last'.ret)
    /\ values'[Unwrap(last'.ret) + 1] = Repeat(Unwrap(fs.r)[1], Len(last'.arg.ops))

\* The rvalue is left a Repeat of n elements of a constant the element
\* folds to.
RepeatOfConstant(fs) ==
    /\ IsSome(try_as_constant(fs.s, Unwrap(fs.r)[1]))
    /\ last'.x = RepeatRv(ConstOp(Unwrap(try_as_constant(fs.s, Unwrap(fs.r)[1]))),
                          Len(last'.arg.ops))

\* The rvalue is left a Repeat of n elements of a copy of a local that holds
\* the element and whose assignment dominates the statement.
RepeatOfLocal(fs) ==
    /\ ~IsSome(try_as_constant(fs.s, Unwrap(fs.r)[1]))
    /\ \E local \in DOMAIN local_decls :
          /\ locals'[local] = Some(Unwrap(fs.r)[1])
          /\ assignment_dominates(local, cursor.location)
          /\ local \in reused_locals'
          /\ last'.x = RepeatRv(Copy(LocalPlace(local)), Len(last'.arg.ops))

\* The rvalue is left an aggregate: the element neither folds to a constant
\* nor is held by a local.
NoRepeatOperand(fs) ==
    /\ ~IsSome(try_as_constant(fs.s, Unwrap(fs.r)[1]))
    /\ ~IsSome(try_as_local(fs.s, Unwrap(fs.r)[1], cursor.location))
    /\ last'.x.k = "Aggregate"

\* No Repeat comes out of the call, as a value or as an rvalue.
NeverRepeat ==
    /\ last'.x.k # "Repeat"
    /\ IsSome(last'.ret) => values'[Unwrap(last'.ret) + 1].k # "Repeat"

\* C14 as stated: an array of more than four operands of the same VnIndex
\* gives the value Repeat(first, n) and the rvalue is rewritten to a Repeat
\* of a constant, otherwise of a copy of a dominating local; any other
\* aggregate gives no Repeat.
C14_AlwaysRewritten ==
    [][Called("simplify_aggregate") =>
          IF RepeatedArray(OperandIndices)
          THEN /\ ReturnsRepeat(OperandIndices)
               /\ RepeatOfConstant(OperandIndices) \/ RepeatOfLocal(OperandIndices)
          ELSE NeverRepeat]_vars

\* C14: an array of more than four operands of the same VnIndex gives the
\* value Repeat(first, n); the rvalue is rewritten to a Repeat of a constant
\* if the element folds to one, otherwise of a copy of a dominating local if
\* one holds the element, and otherwise is left an aggregate. Any other
\* aggregate gives no Repeat.
C14_RepeatOfEqualOperands ==
    [][Called("simplify_aggregate") =>
          IF RepeatedArray(OperandIndices)
          THEN /\ ReturnsRepeat(OperandIndices)
               /\ \/ RepeatOfConstant(OperandIndices)
                  \/ RepeatOfLocal(OperandIndices)
                  \/ NoRepeatOperand(OperandIndices)
          ELSE NeverRepeat]_vars

\* The call just made returned a Repeat value and left the rvalue an
\* aggregate, and the interner also holds a Repeat of a constant and a
\* Repeat of an argument.
C14_Witness ==
    /\ last.op = "simplify_aggregate"
    /\ IsSome(last.ret)
    /\ values[Unwrap(last.ret) + 1].k = "Repeat"
    /\ last.x.k = "Aggregate"
    /\ \E i \in OfKind({"Repeat"}) : values[values[i].a + 1].k = "Constant"
    /\ \E i \in OfKind({"Repeat"}) : values[values[i].a + 1].k = "Opaque"

\* The aggregate of the call being made is supported: no union initializer
\* and no empty zero-sized aggregate.
SupportedAggregate ==
    /\ last'.arg.x # "Union"
    /\ last'.arg.ops = <<>> => last'.arg.x = "Adt" /\ is_enum(last'.arg.t)

\* C20 as stated: simplify_aggregate on a supported aggregate returns an
\* index.
C20_AlwaysAnIndex ==
    [][Called("simplify_aggregate") /\ SupportedAggregate => IsSome(last'.ret)]_vars

\* C20: while opaques are handed out, simplify_aggregate on a supported
\* aggregate returns an index; once next_opaque is None it returns an index
\* exactly when every operand simplifies.
C20_IndexWhileOpaques ==
    [][Called("simplify_aggregate") /\ SupportedAggregate =>
          IF IsSome(next_opaque)
          THEN IsSome(last'.ret)
          ELSE IsSome(last'.ret) <=>
                  \A i \in DOMAIN last'.arg.ops :
                     IsSome(simplify_operand(S, last'.arg.ops[i], cursor.location).r)]_vars

\* The call just made returned an aggregate one of whose fields is an opaque
\* made for an operand that has no value.
C20_Witness ==
    /\ last.op = "simplify_aggregate"
    /\ last.arg = AggregateRv("Tuple", "", 0, <<Copy(L(1)), Copy(L(4))>>)
    /\ IsSome(last.ret)
    /\ values[Unwrap(last.ret) + 1].k = "Aggregate"
    /\ values[values[Unwrap(last.ret) + 1].fs[2] + 1].k = "Opaque"
    /\ locals[4] = None

-----------------------------------------------------------------------------
(* Properties of the phases.                                               *)

\* C15 as stated: during the traversal the pass writes none of values,
\* evaluated, locals and rev_locals.
C15_TraversalWritesNothing ==
    [][phase = "replace" =>
          /\ values' = values
          /\ evaluated' = evaluated
          /\ locals' = locals
          /\ rev_locals' = rev_locals]_vars

\* The values a step appends.
Appended == {values'[i] : i \in DOMAIN values' \ DOMAIN values}

\* A value that only a live counter of opaques can make.
Minted(v) == v.k \in {"Opaque", "Address"} \/ (v.k = "Constant" /\ ~is_deterministic(v.c))

\* C15: during the traversal the pass writes neither locals nor rev_locals
\* and next_opaque stays None; values and evaluated only grow at the end,
\* entry for entry, and no value appended is an Opaque, an Address or a
\* non-deterministic Constant.
C15_TraversalOnlyAppends ==
    [][phase = "replace" =>
          /\ locals' = locals
          /\ rev_locals' = rev_locals
          /\ next_opaque' = None
          /\ Len(values') >= Len(values)
          /\ Len(evaluated') = Len(values')
          /\ \A i \in DOMAIN values : values'[i] = values[i] /\ evaluated'[i] = evaluated[i]
          /\ \A v \in Appended : ~Minted(v)]_vars

\* The traversal is over and interned the value of an assignment to a local
\* that is not SSA: the learning phase assigned no local at all.
C15_Witness ==
    /\ phase = "done"
    /\ \A l \in Locals : locals[l] = None
    /\ OfKind({"BinaryOp"}) # {}
    /\ Len(evaluated) = Len(values)

\* C16: once the learning phase is over locals and rev_locals do not
\* change, and every rev_locals list holds its locals in the order in which
\* the learning phase assigned them.
C16_AssignOnlyWhileLearning ==
    /\ [](\A v \in DOMAIN rev_locals : \A i, j \in DOMAIN rev_locals[v] :
             i < j => DefRank(rev_locals[v][i]) < DefRank(rev_locals[v][j]))
    /\ [][phase # "learn" => locals' = locals /\ rev_locals' = rev_locals]_vars

\* The pass is over and two locals assigned by statements hold one value,
\* next to an argument held by nothing else.
C16_Witness ==
    /\ phase = "done"
    /\ \E v \in DOMAIN rev_locals :
          /\ Len(rev_locals[v]) >= 2
          /\ \A i \in DOMAIN rev_locals[v] : rev_locals[v][i] > arg_count
    /\ \E v \in DOMAIN rev_locals : rev_locals[v] = <<1>>

\* C17: next_opaque is Some as long as the learning phase runs, so the
\* fallback new_opaque of the callback returns a value; it is None in every
\* later phase, and once None it stays None.
C17_OpaquesOnlyWhileLearning ==
    /\ [](phase = "learn" => IsSome(next_opaque) /\ IsSome(new_opaque(S).r))
    /\ [](phase # "learn" => next_opaque = None)
    /\ [][next_opaque = None => next_opaque' = None]_vars

\* The traversal is over, next_opaque is None, and the learning phase gave
\* a fresh opaque to a local whose rvalue has no value, after the opaques
\* of the arguments.
C17_Witness ==
    /\ phase = "done"
    /\ next_opaque = None
    /\ \E l \in Locals :
          /\ l > arg_count
          /\ IsSome(locals[l])
          /\ values[Unwrap(locals[l]) + 1].k = "Opaque"
          /\ values[Unwrap(locals[l]) + 1].n >= arg_count
    /\ arg_count > 0

\* C18: once next_opaque is None, new_opaque and new_pointer return None
\* and intern nothing, insert_constant returns None exactly when its
\* constant is non-deterministic and else returns the index of the interned
\* constant, and no step appends an Opaque, an Address or a
\* non-deterministic Constant to values.
C18_NothingMintedAfterStop ==
    [][next_opaque = None =>
          /\ Called("new_opaque") \/ Called("new_pointer") =>
                last'.ret = None /\ values' = values /\ evaluated' = evaluated
          /\ Called("insert_constant") =>
                /\ last'.ret = None <=> ~is_deterministic(last'.arg)
                /\ IsSome(last'.ret) => values'[Unwrap(last'.ret) + 1] = Constant(last'.arg, 0)
                /\ last'.ret = None => values' = values
          /\ \A v \in Appended : ~Minted(v)
          /\ next_opaque' = None]_vars

\* After next_opaque was set to None with nothing interned, a deterministic
\* constant was interned and the call just made, on a non-deterministic
\* constant, returned None.
C18_Witness ==
    /\ next_opaque = None
    /\ values = <<Constant(ScalarC(1, "u8"), 0)>>
    /\ last.op = "insert_constant"
    /\ ~is_deterministic(last.arg)
    /\ last.ret = None

\* The statement the traversal is about to visit is an assignment, its
\* rvalue is no constant, its value does not fold to a constant, and a
\* local whose assignment dominates the statement holds the value.
ReplacementFound(res) ==
    /\ IsSome(res.r)
    /\ ~IsSome(try_as_constant(res.s, Unwrap(res.r)))
    /\ IsSome(try_as_local(res.s, Unwrap(res.r), cursor.location))

ReplacementStep ==
    /\ phase = "replace"
    /\ ~IsTerminator(body, cursor.location)
    /\ StatementAt(body, cursor.location).k = "Assign"
    /\ ~(/\ StatementAt(body, cursor.location).rv.k = "Use"
         /\ StatementAt(body, cursor.location).rv.ops[1].k = "Constant")
    /\ cursor' # cursor

\* The rvalue of the statement being visited, simplified.
Simplified == simplify_rvalue(S, StatementAt(body, cursor.location).rv, cursor.location)

\* The local the replacement step finds for the value.
Found(res) == Unwrap(try_as_local(res.s, Unwrap(res.r), cursor.location))

\* The statement reads exactly the local found: nothing is rewritten and
\* nothing is recorded.
LeftAlone(res) ==
    /\ StatementAt(body', cursor.location) = StatementAt(body, cursor.location)
    /\ reused_locals' = reused_locals

\* The rvalue becomes a copy of the local found, which is recorded.
Replaced(res) ==
    /\ StatementAt(body', cursor.location).rv = Use(Copy(LocalPlace(Found(res))))
    /\ Found(res) \in reused_locals'

\* C19 as stated: when the right-hand side reads exactly the local found,
\* by copy or by move, the statement is left unchanged and the local is not
\* recorded; otherwise the right-hand side becomes a copy of the local,
\* which is recorded.
C19_SameLocalLeftAlone ==
    [][ReplacementStep /\ ReplacementFound(Simplified) =>
          IF StatementAt(body, cursor.location).rv \in
                {Use(Copy(LocalPlace(Found(Simplified)))), Use(Move(LocalPlace(Found(Simplified))))}
          THEN LeftAlone(Simplified)
          ELSE Replaced(Simplified)]_vars

\* C19: the simplified right-hand side is left as it is, and the local
\* found is not recorded by the step, only when it is a move of the local
\* found; in every other case, a copy of that very local included, the
\* right-hand side becomes Use(Copy(local)) and the local is recorded in
\* reused_locals.
C19_OnlyMoveLeftAlone ==
    [][ReplacementStep /\ ReplacementFound(Simplified) =>
          IF Simplified.x = Use(Move(LocalPlace(Found(Simplified))))
          THEN /\ StatementAt(body', cursor.location).rv = Simplified.x
               /\ reused_locals' = Simplified.s.reused_locals
          ELSE Replaced(Simplified)]_vars

\* The pass is over on a body whose only assignment is `_6 = copy _2`: the
\* body is the input body, and local 2 is recorded in reused_locals.
C19_Witness ==
    /\ phase = "done"
    /\ input = MkBody(<<Assign(6, Use(Copy(L(2)))), StorageLive(4), StorageDead(4)>>,
                      "straight", Move(L(4)))
    /\ body = input
    /\ reused_locals = {2}

-----------------------------------------------------------------------------
(* Properties of the indices held by values.                               *)

\* The VnIndex values in the payload of a value: aggregate fields, the base
\* of a projection and the index of its Index element, and the operands of
\* Repeat, Len, Discriminant, unary, binary, checked-binary and cast values.
PayloadIndices(v) ==
    {v.fs[i] : i \in DOMAIN v.fs}
        \cup (IF v.k \in {"Repeat", "Projection", "Discriminant", "Len", "UnaryOp", "BinaryOp",
                          "CheckedBinaryOp", "Cast"} THEN {v.a} ELSE {})
        \cup (IF v.k \in {"BinaryOp", "CheckedBinaryOp"} THEN {v.b} ELSE {})
        \cup (IF v.k = "Projection" /\ v.elem.k = "Index" THEN {v.elem.n} ELSE {})

\* C21: every VnIndex in the payload of a value is smaller than the index
\* of the value, every VnIndex held by locals or used as a key of rev_locals
\* is smaller than the number of values, and evaluated has one entry per
\* value.
C21_PayloadPrecedes ==
    /\ \A i \in DOMAIN values : \A p \in PayloadIndices(values[i]) : 0 <= p /\ p < i - 1
    /\ \A l \in Locals : IsSome(locals[l]) => Unwrap(locals[l]) \in Interned
    /\ \A v \in DOMAIN rev_locals : v \in Interned
    /\ Len(evaluated) = Len(values)

\* The pass is over and the interner holds an aggregate of several fields
\* and a read of an element at the index held by a local, and a local holds
\* the last value interned.
C21_Witness ==
    /\ phase = "done"
    /\ \E i \in OfKind({"Aggregate"}) : Len(values[i].fs) >= 2
    /\ \E i \in OfKind({"Projection"}) : values[i].elem.k = "Index"
    /\ \E l \in Locals : locals[l] = Some(Len(values) - 1)

-----------------------------------------------------------------------------
(* Properties of the storage fixup.                                        *)

\* The operand is a move out of a bare local of reused_locals.
MovesReused(operand) ==
    /\ operand.k = "Move"
    /\ operand.place.projection = <<>>
    /\ operand.place.local \in reused_locals

\* What the fixup may make of one operand: a move out of a bare reused
\* local becomes a copy of it, any other operand stays, and no move out of a
\* bare reused local is left.
OperandFixed(before, after) ==
    /\ MovesReused(before) => after = Copy(before.place)
    /\ ~MovesReused(before) => after = before
    /\ ~MovesReused(after)

\* C22: the storage fixup turns every operand Move(l), l a bare local of
\* reused_locals, of every statement and terminator into Copy(l), so that
\* none is left; a move of a projected place, a move of a local that is not
\* in reused_locals and the storage statements of the locals that are not in
\* reused_locals are left as they are.
C22_FixupOnlyBareReusedMoves ==
    [][phase = "fixup" =>
          /\ reused_locals' = reused_locals
          /\ \A b \in DOMAIN body :
                /\ Len(body'[b].statements) = Len(body[b].statements)
                /\ \A i \in DOMAIN body[b].statements :
                      /\ (/\ body[b].statements[i].k \in {"StorageLive", "StorageDead"}
                          /\ body[b].statements[i].local \notin reused_locals) =>
                            body'[b].statements[i] = body[b].statements[i]
                      /\ body[b].statements[i].k = "Assign" =>
                            \A j \in DOMAIN body[b].statements[i].rv.ops :
                               OperandFixed(body[b].statements[i].rv.ops[j],
                                            body'[b].statements[i].rv.ops[j])
                /\ \A j \in DOMAIN body[b].terminator.ops :
                      OperandFixed(body[b].terminator.ops[j], body'[b].terminator.ops[j])]_vars

\* The fixup is over: the discriminant of the switch, a move out of local 1
\* in the input, is a copy of local 1, which is in reused_locals; the move
\* out of a field of local 3 is still a move although local 3 is in
\* reused_locals too.
C22_Witness ==
    /\ phase = "done"
    /\ {1, 3} \subseteq reused_locals
    /\ input[1].terminator.ops = <<Move(L(1))>>
    /\ body[1].terminator.ops = <<Copy(L(1))>>
    /\ \E b \in DOMAIN body : \E i \in DOMAIN body[b].statements :
          /\ body[b].statements[i].k = "Assign"
          /\ body[b].statements[i].rv = Use(Move(Place(3, <<Field(0, "u8")>>)))

-----------------------------------------------------------------------------
(* Properties of reads at a constant index.                                *)

\* The call being made applies a ConstantIndex element to an Array
\* aggregate.
ConstantIndexOfArray ==
    /\ Called("project")
    /\ last'.arg.elem.k = "ConstantIndex"
    /\ values[last'.arg.value + 1].k = "Aggregate"
    /\ values[last'.arg.value + 1].x = "Array"

\* The position the element of the call being made reads, counted from the
\* start of the operands ops.
PositionRead(ops) ==
    IF last'.arg.elem.e THEN Len(ops) - last'.arg.elem.n ELSE last'.arg.elem.n

====
